---- MODULE Spec2Model ----
(***************************************************************************)
(* The activity database of tracs (tracs/db.py): the id-keyed collections  *)
(* of activities and resources, the id allocation, insert/upsert/remove,   *)
(* and the layered (underlay/overlay) file store with commit and save.     *)
(*                                                                         *)
(* Python values are modelled as follows.  An optional value is a tuple of *)
(* length 0 (None) or 1 (the value).  A dict is a function whose DOMAIN is *)
(* the key set.  A filesystem layer is a function from the names of the    *)
(* files that exist in it to their content and modification time.  Every   *)
(* Activity and Resource handed to the db is a freshly constructed object. *)
(***************************************************************************)
EXTENDS Integers, Sequences, FiniteSets, TLC

VARIABLES
    _activities,   \* ActivityDb._activities: id -> Activity
    _resources,    \* ActivityDb._resources: id -> Resource
    _read_only,    \* ActivityDb._read_only
    _db_path,      \* ActivityDb._db_path: TRUE iff a path was given
    backup_path,   \* the backup directory: name of a backup -> its files
    path_exists,   \* _db_path.exists(): the directory is on disk
    osfs,          \* the directory at _db_path on disk: file name -> [content, modified]
    memfs,         \* the MemoryFS underlay of a read-only or ephemeral db
    overlay,       \* dbfs.get_fs( OVERLAY ): file name -> [content, modified]
    clock,         \* the time of the most recent filesystem write
    alive,         \* FALSE once the process has ended: killed, or the constructor failed
    last,          \* the most recent call: name, argument, result, state before
    ghost,         \* history: the underlay after construction, the commits made
    calls,         \* the number of calls made while the store is exercised
    heap           \* the Activity objects outside a db and the lists their tags refer to

vars == <<_activities, _resources, _read_only, _db_path, backup_path, path_exists, osfs, memfs, overlay, clock, alive, last, ghost, calls, heap>>
colVars == <<_activities, _resources>>
\* no Activity object outside the db
NoObjects == [tags |-> <<>>, lists |-> <<>>]

fsVars == <<_read_only, _db_path, backup_path, path_exists, osfs, memfs, overlay, clock, alive, ghost, heap>>

----------------------------------------------------------------------------
(* Bounds *)

MaxActivities == 2      \* activities stored at a time
MaxResources == 2       \* resources stored at a time
MaxKey == 8             \* largest id of a db loaded from disk
MaxClock == 4           \* filesystem writes in one behaviour
MaxCalls == 6           \* calls in one behaviour of the store
MaxOthers == 2          \* activities in the list handed to a merge

----------------------------------------------------------------------------
(* Python values *)

None == <<>>
Some(v) == <<v>>

Min(S) == CHOOSE x \in S : \A y \in S : x <= y
Max(S) == CHOOSE x \in S : \A y \in S : x >= y

\* ActivityDb.underlay_fs: the directory itself for a read-write db on a path
underlay_fs == IF _db_path /\ ~_read_only THEN osfs ELSE memfs

\* the state before a call, kept in last.pre: the collections for the calls
\* on the collections, the layers for the calls on the store
Collections == [activities |-> _activities, resources |-> _resources]
Layers == [underlay |-> underlay_fs, overlay |-> overlay,
           disk |-> [exists |-> path_exists, files |-> osfs],
           activities |-> _activities, resources |-> _resources]

----------------------------------------------------------------------------
(* CPython's set, as used by _next_id: an open-addressing hash table with  *)
(* linear probing and perturbation; the hash of a small int is the int.    *)
(* A table is a function from 0..mask to the key in the slot, 0 = unused   *)
(* and -1 = dummy (a deleted key).                                         *)

PySet_MINSIZE == 8
LINEAR_PROBES == 9
PERTURB_SHIFT == 5

EmptyTable(size) == [i \in 0..(size - 1) |-> 0]
TableMask(table) == Cardinality(DOMAIN table) - 1
TableUsed(table) == Cardinality({i \in DOMAIN table : table[i] > 0})

RECURSIVE Shr(_, _)
Shr(n, k) == IF k = 0 THEN n ELSE Shr(n \div 2, k - 1)

\* the slot a key not in the table is stored in: probe entry i and the
\* next LINEAR_PROBES entries, then jump to (i*5 + 1 + perturb) & mask
RECURSIVE set_find_unused(_, _, _, _)
set_find_unused(table, i, k, perturb) ==
    LET mask == TableMask(table)
        probes == IF i + LINEAR_PROBES <= mask THEN LINEAR_PROBES ELSE 0
        p == Shr(perturb, PERTURB_SHIFT)
    IN  IF table[i + k] = 0 THEN i + k
        ELSE IF k < probes THEN set_find_unused(table, i, k + 1, perturb)
        ELSE set_find_unused(table, (i * 5 + 1 + p) % (mask + 1), 0, p)

set_insert_clean(table, key) ==
    [table EXCEPT ![set_find_unused(table, key % (TableMask(table) + 1), 0, key)] = key]

\* the keys of a table in slot order
RECURSIVE set_entries(_, _)
set_entries(table, i) ==
    IF i > TableMask(table) THEN <<>>
    ELSE IF table[i] > 0 THEN <<table[i]>> \o set_entries(table, i + 1)
    ELSE set_entries(table, i + 1)

RECURSIVE set_insert_all(_, _)
set_insert_all(table, keys) ==
    IF keys = <<>> THEN table
    ELSE set_insert_all(set_insert_clean(table, Head(keys)), Tail(keys))

RECURSIVE set_new_size(_, _)
set_new_size(size, minused) ==
    IF size <= minused THEN set_new_size(2 * size, minused) ELSE size

set_table_resize(table, minused) ==
    set_insert_all(EmptyTable(set_new_size(PySet_MINSIZE, minused)), set_entries(table, 0))

\* add a key that is not in the table, growing the table when it fills up
set_add_key(table, key) ==
    LET t == set_insert_clean(table, key)
    IN  IF TableUsed(t) * 5 < TableMask(t) * 3 THEN t
        ELSE set_table_resize(t, TableUsed(t) * 4)

RECURSIVE set_add_all(_, _)
set_add_all(table, keys) ==
    IF keys = <<>> THEN table
    ELSE set_add_all(set_add_key(table, Head(keys)), Tail(keys))

\* set( range( 1, n + 1 ) ), and set( [1] ) for n = 1
set_of_range(n) == set_add_all(EmptyTable(PySet_MINSIZE), [i \in 1..n |-> i])

\* set_copy: a new set merged from so
set_copy(so) ==
    LET used == TableUsed(so)
        t0 == EmptyTable(PySet_MINSIZE)
        t1 == IF used * 5 >= TableMask(t0) * 3 THEN EmptyTable(set_new_size(PySet_MINSIZE, used * 2)) ELSE t0
    IN  IF TableMask(t1) = TableMask(so) THEN so
        ELSE set_insert_all(t1, set_entries(so, 0))

\* so.difference( other ), other given as a set of ints
set_difference(so, other) ==
    IF Shr(TableUsed(so), 2) > Cardinality(other)
    THEN LET c == set_copy(so) IN [i \in DOMAIN c |-> IF c[i] \in other THEN -1 ELSE c[i]]
    ELSE set_add_all(EmptyTable(PySet_MINSIZE),
                     SelectSeq(set_entries(so, 0), LAMBDA k : k \notin other))

\* so.pop() of a set nothing was popped from: the key in the first used slot
set_pop(so) == Head(set_entries(so, 0))

----------------------------------------------------------------------------
(* Id allocation *)

\* a faulty _next_id: the largest key in use
_next_id_reuse(d) == IF DOMAIN d = {} THEN 1 ELSE Max(DOMAIN d)

_next_id(d) ==
    LET keys == DOMAIN d
        key_range == IF keys # {} THEN set_of_range(Max(keys) + 1) ELSE set_of_range(1)
    IN  set_pop(set_difference(key_range, keys))

----------------------------------------------------------------------------
(* Activities *)

UIDS == <<"polar:1", "strava:1">>
Names == {"One", "Two"}
Distances == {10}

UidIndex(u) == CHOOSE i \in 1..Len(UIDS) : UIDS[i] = u
SeqToSet(s) == {s[i] : i \in 1..Len(s)}

\* sorted( set( uids ) )
RECURSIVE SortUids(_)
SortUids(S) ==
    IF S = {} THEN <<>>
    ELSE LET u == CHOOSE x \in S : \A y \in S : UidIndex(x) <= UidIndex(y)
         IN  <<u>> \o SortUids(S \ {u})

\* Activity( id=0, uids=..., name=..., distance=... ), activity.py:44
NoId == 0
Activity(uids, name, distance) ==
    [id |-> NoId, uids |-> uids, name |-> name, distance |-> distance]

\* the fields union merges first-wins / last-wins
MergeFields == {"name", "distance"}

\* the first / last non-null value of a list of optional values
RECURSIVE FirstNonNull(_)
FirstNonNull(values) ==
    IF values = <<>> THEN None
    ELSE IF Head(values) # None THEN Head(values)
    ELSE FirstNonNull(Tail(values))

RECURSIVE LastNonNull(_)
LastNonNull(values) ==
    IF values = <<>> THEN None
    ELSE IF values[Len(values)] # None THEN values[Len(values)]
    ELSE LastNonNull(SubSeq(values, 1, Len(values) - 1))

\* a faulty union: uids is merged like the other fields, the first list wins
union_uids_first_wins(self, others, force) ==
    LET sources == <<self>> \o others
        pick(f) == LET values == [i \in 1..Len(sources) |-> sources[i][f]]
                   IN  IF force THEN LastNonNull(values) ELSE FirstNonNull(values)
        ids == [i \in 1..Len(sources) |-> IF sources[i].id = NoId THEN None ELSE Some(sources[i].id)]
    IN  [id |-> IF force /\ LastNonNull(ids) # None THEN LastNonNull(ids)[1] ELSE self.id,
         uids |-> self.uids,
         name |-> pick("name"),
         distance |-> pick("distance")]

\* Activity.union( others, force ): the merged record
union(self, others, force) ==
    LET sources == <<self>> \o others
        pick(f) == LET values == [i \in 1..Len(sources) |-> sources[i][f]]
                   IN  IF force THEN LastNonNull(values) ELSE FirstNonNull(values)
        ids == [i \in 1..Len(sources) |-> IF sources[i].id = NoId THEN None ELSE Some(sources[i].id)]
    IN  [id |-> IF force /\ LastNonNull(ids) # None THEN LastNonNull(ids)[1] ELSE self.id,
         uids |-> SortUids(UNION {SeqToSet(sources[i].uids) : i \in 1..Len(sources)}),
         name |-> pick("name"),
         distance |-> pick("distance")]

\* a faulty get_activity_by_uids: all() in place of any()
get_activity_by_uids_all(activities, uids) ==
    {k \in DOMAIN activities : \A u \in SeqToSet(uids) : u \in SeqToSet(activities[k].uids)}

\* get_activity_by_uids: the ids of the activities it can return; the
\* iteration order of the collection decides which one is found first
get_activity_by_uids(activities, uids) ==
    {k \in DOMAIN activities : \E u \in SeqToSet(uids) : u \in SeqToSet(activities[k].uids)}

\* d[key] = value
DictSet(d, key, value) == [k \in DOMAIN d \cup {key} |-> IF k = key THEN value ELSE d[k]]
\* del d[key]
DictDel(d, key) == [k \in DOMAIN d \ {key} |-> d[k]]

\* the collection after insert_activity( activity )
InsertActivity(activities, activity) ==
    LET id == _next_id(activities)
    IN  DictSet(activities, id, [activity EXCEPT !.id = id])

\* the collection after / the ids returned by insert_activities( list )
RECURSIVE InsertActivities(_, _)
InsertActivities(activities, list) ==
    IF list = <<>> THEN activities
    ELSE InsertActivities(InsertActivity(activities, Head(list)), Tail(list))

RECURSIVE InsertedIds(_, _)
InsertedIds(activities, list) ==
    IF list = <<>> THEN <<>>
    ELSE <<_next_id(activities)>> \o InsertedIds(InsertActivity(activities, Head(list)), Tail(list))

insert_activity(activity) ==
    /\ alive
    /\ Cardinality(DOMAIN _activities) < MaxActivities
    /\ _activities' = InsertActivity(_activities, activity)
    /\ last' = [op |-> "insert_activity", arg |-> activity, ret |-> Some(_next_id(_activities)),
                found |-> None, pre |-> Collections]
    /\ UNCHANGED <<_resources, fsVars>>

insert_activities(list) ==
    /\ alive
    /\ Cardinality(DOMAIN _activities) + Len(list) <= MaxActivities
    /\ _activities' = InsertActivities(_activities, list)
    /\ last' = [op |-> "insert_activities", arg |-> list, ret |-> InsertedIds(_activities, list),
                found |-> None, pre |-> Collections]
    /\ UNCHANGED <<_resources, fsVars>>

upsert_activity(activity) ==
    /\ alive
    /\ \/ \E existing \in get_activity_by_uids(_activities, activity.uids) :
            /\ _activities' = [_activities EXCEPT ![existing] = union(@, <<activity>>, FALSE)]
            /\ last' = [op |-> "upsert_activity", arg |-> activity,
                        ret |-> Some(union(_activities[existing], <<activity>>, FALSE).id),
                        found |-> Some(existing), pre |-> Collections]
       \/ /\ get_activity_by_uids(_activities, activity.uids) = {}
          /\ Cardinality(DOMAIN _activities) < MaxActivities
          /\ _activities' = InsertActivity(_activities, activity)
          /\ last' = [op |-> "upsert_activity", arg |-> activity, ret |-> None,
                      found |-> None, pre |-> Collections]
    /\ UNCHANGED <<_resources, fsVars>>

\* a faulty remove_activity: the resources of the activity go with it
remove_activity_and_resources(id) ==
    /\ alive
    /\ id \in DOMAIN _activities
    /\ _activities' = DictDel(_activities, id)
    /\ _resources' = [k \in {r \in DOMAIN _resources : _resources[r].uid \notin SeqToSet(_activities[id].uids)}
                          |-> _resources[k]]
    /\ last' = [op |-> "remove_activity", arg |-> _activities[id], ret |-> None,
                found |-> None, pre |-> Collections]
    /\ UNCHANGED fsVars

remove_activity(id) ==
    /\ alive
    /\ id \in DOMAIN _activities
    /\ _activities' = DictDel(_activities, id)
    /\ last' = [op |-> "remove_activity", arg |-> _activities[id], ret |-> None,
                found |-> None, pre |-> Collections]
    /\ UNCHANGED <<_resources, fsVars>>

----------------------------------------------------------------------------
(* The db files *)

ACTIVITIES_NAME == "activities.json"
INDEX_NAME == "index.json"
METADATA_NAME == "metadata.json"
RESOURCES_NAME == "resources.json"
SCHEMA_NAME == "schema.json"
SCHEMA_VERSION == 12

\* the keys of DB_FILES in iteration order, and their default payload
DB_FILES == <<ACTIVITIES_NAME, INDEX_NAME, METADATA_NAME, RESOURCES_NAME, SCHEMA_NAME>>
EmptyObject == [k \in {} |-> 0]
DefaultContent(f) == IF f = SCHEMA_NAME THEN [version |-> SCHEMA_VERSION] ELSE EmptyObject

EmptyFs == [f \in {} |-> 0]
File(content, modified) == [content |-> content, modified |-> modified]
\* fs.writetext / fs.writebytes at time t
WriteFile(fs, f, content, t) == [g \in DOMAIN fs \cup {f} |-> IF g = f THEN File(content, t) ELSE fs[g]]

\* the five files seeded with their defaults at time t
SeededFs(t) == [f \in SeqToSet(DB_FILES) |-> File(DefaultContent(f), t)]

\* no exception raised
NoError == ""

\* the content of activities.json and resources.json of a new db
DefaultCommit == <<DefaultContent(ACTIVITIES_NAME), DefaultContent(RESOURCES_NAME)>>

History(underlay0, exists0, disk0, raised) ==
    [underlay0 |-> underlay0, disk0 |-> [exists |-> exists0, files |-> disk0], raised |-> raised,
     save_called |-> FALSE, committed |-> None, saved |-> FALSE, restored |-> None,
     commits |-> {DefaultCommit} \cup
                 (IF {ACTIVITIES_NAME, RESOURCES_NAME} \subseteq DOMAIN underlay0
                  THEN {<<underlay0[ACTIVITIES_NAME].content, underlay0[RESOURCES_NAME].content>>}
                  ELSE {})]

Call(op) == [op |-> op, arg |-> None, ret |-> None, found |-> None, pre |-> None]

\* ActivityDb(): no path, both layers in memory, the defaults in the underlay
InitEphemeral ==
    /\ _activities = EmptyObject
    /\ _resources = EmptyObject
    /\ _read_only = FALSE
    /\ _db_path = FALSE
    /\ backup_path = EmptyObject
    /\ heap = NoObjects
    /\ path_exists = FALSE
    /\ osfs = EmptyFs
    /\ memfs = SeededFs(0)
    /\ overlay = EmptyFs
    /\ clock = 0
    /\ alive = TRUE
    /\ last = Call("__init__")
    /\ ghost = History(SeededFs(0), FALSE, EmptyFs, NoError)
    /\ calls = 0

----------------------------------------------------------------------------
(* Activities: insert, upsert and remove on a db constructed without a path *)

UidLists == {SortUids(S) : S \in SUBSET SeqToSet(UIDS)} \ {<<>>}
\* activities as the service connectors hand them over: a name or none, and
\* one record of both services that also carries a distance
ActivityInputs ==
    {Activity(uids, name, None) : uids \in UidLists, name \in {None} \cup {Some(n) : n \in Names}}
    \cup {Activity(UIDS, Some("Two"), Some(d)) : d \in Distances}
\* the lists handed to insert_activities
BareInputs == {a \in ActivityInputs : a.name = None /\ a.distance = None /\ Len(a.uids) = 1}
ActivityListInputs == {<<>>} \cup {<<a>> : a \in BareInputs} \cup {<<a, b>> : a \in BareInputs, b \in BareInputs}

NextActivities ==
    \/ \E a \in ActivityInputs : insert_activity(a) /\ UNCHANGED calls
    \/ \E l \in ActivityListInputs : insert_activities(l) /\ UNCHANGED calls
    \/ \E a \in ActivityInputs : upsert_activity(a) /\ UNCHANGED calls
    \/ \E id \in DOMAIN _activities : remove_activity(id) /\ UNCHANGED calls

SpecActivities == InitEphemeral /\ [][NextActivities]_vars

SharesUid(a, b) == SeqToSet(a.uids) \cap SeqToSet(b.uids) # {}

\* C1: upsert_activity( a ) returns the id under which a's data is stored
\* afterwards: the id of the existing record when a stored activity shares a
\* uid with a, the newly allocated id otherwise.
UpsertActivityReturnsId ==
    last.op = "upsert_activity" =>
        \E k \in DOMAIN _activities :
            /\ last.ret = Some(k)
            /\ IF \E j \in DOMAIN last.pre.activities : SharesUid(last.pre.activities[j], last.arg)
               THEN last.found = Some(k)
               ELSE k \notin DOMAIN last.pre.activities /\ _activities[k] = [last.arg EXCEPT !.id = k]

\* C2: when upsert_activity( a ) finds a stored activity e sharing a uid with
\* a, a is not stored as a second record: the number of stored activities and
\* e's id are unchanged, every non-null field of e keeps its value, every
\* null mergeable field of e takes a's value, and e's uids contain a's uids.
UpsertActivityMergesIntoExisting ==
    (/\ last.op = "upsert_activity"
     /\ \E j \in DOMAIN last.pre.activities : SharesUid(last.pre.activities[j], last.arg))
    => /\ last.found # None
       /\ LET e == last.found[1]
              old == last.pre.activities[e]
              new == _activities[e]
          IN  /\ SharesUid(old, last.arg)
              /\ DOMAIN _activities = DOMAIN last.pre.activities
              /\ \A k \in DOMAIN _activities \ {e} : _activities[k] = last.pre.activities[k]
              /\ new.id = old.id /\ new.id = e
              /\ \A f \in MergeFields :
                    /\ old[f] # None => new[f] = old[f]
                    /\ old[f] = None => new[f] = last.arg[f]
              /\ SeqToSet(last.arg.uids) \subseteq SeqToSet(new.uids)
              /\ SeqToSet(old.uids) \subseteq SeqToSet(new.uids)

\* an upsert that found a record with a name and no distance, and merged an
\* activity with another name, a distance and a uid the record did not have
UpsertActivityMergedWitness ==
    /\ last.op = "upsert_activity"
    /\ last.found # None
    /\ LET old == last.pre.activities[last.found[1]]
       IN  /\ old.name # None /\ last.arg.name # None /\ old.name # last.arg.name
           /\ old.distance = None /\ last.arg.distance # None
           /\ ~(SeqToSet(last.arg.uids) \subseteq SeqToSet(old.uids))
           /\ _activities[last.found[1]].distance = last.arg.distance

\* C3: every stored activity is stored under its own id, no two stored
\* activities have the same id, insert_activity returns an id that was not in
\* use and leaves all other stored activities as they were, and it adds a
\* record even when the uid is already stored.
ActivityIdsConsistent ==
    /\ \A k \in DOMAIN _activities : _activities[k].id = k
    /\ \A j, k \in DOMAIN _activities : j # k => _activities[j].id # _activities[k].id
    /\ last.op = "insert_activity" =>
          \E k \in DOMAIN _activities :
              /\ last.ret = Some(k)
              /\ k \notin DOMAIN last.pre.activities
              /\ DOMAIN _activities = DOMAIN last.pre.activities \cup {k}
              /\ _activities[k] = [last.arg EXCEPT !.id = k]
              /\ \A j \in DOMAIN last.pre.activities : _activities[j] = last.pre.activities[j]

\* an insert_activity of an activity whose uid was already stored, into a
\* collection with a gap left by a removal
InsertActivityDuplicateWitness ==
    /\ last.op = "insert_activity"
    /\ \E j \in DOMAIN last.pre.activities : SharesUid(last.pre.activities[j], last.arg)
    /\ \E j \in DOMAIN last.pre.activities : j > 1 /\ 1 \notin DOMAIN last.pre.activities
    /\ Cardinality(DOMAIN _activities) = Cardinality(DOMAIN last.pre.activities) + 1

----------------------------------------------------------------------------
(* Id allocation on a db loaded from a directory *)

IntToStr(n) == IF n < 10 THEN <<n>> ELSE <<n \div 10, n % 10>>
StrToInt(s) == IF Len(s) = 1 THEN s[1] ELSE 10 * s[1] + s[2]

\* fsio.write_activities / write_resources: the object of { str( id ): fields }
write_collection(collection) ==
    [s \in {IntToStr(k) : k \in DOMAIN collection} |-> collection[StrToInt(s)]]

\* fsio.load_activities / load_resources: the mapping of { int( key ): record }
load_collection(content) ==
    [k \in {StrToInt(s) : s \in DOMAIN content} |-> content[IntToStr(k)]]

\* a faulty combined filesystem: the underlay is asked first
dbfs_read_underlay(under, over, f) == IF f \in DOMAIN under THEN under[f] ELSE over[f]

\* dbfs, the MultiFS of the two layers: the layer added last, the overlay, is
\* asked first, so the overlay file shadows the underlay file
dbfs_read(under, over, f) == IF f \in DOMAIN over THEN over[f] ELSE under[f]

\* a read of a db file through dbfs
ReadFile(f) == dbfs_read(underlay_fs, overlay, f)

\* a db directory written by an earlier run that holds activities with ids K
StoredDirectory(K) ==
    WriteFile(SeededFs(0), ACTIVITIES_NAME,
              write_collection([k \in K |-> [Activity(<<UIDS[1]>>, None, None) EXCEPT !.id = k]]), 0)

\* ActivityDb( path ) on such a directory
InitLoaded ==
    /\ \E K \in SUBSET (1..MaxKey) : osfs = StoredDirectory(K)
    /\ overlay = osfs
    /\ memfs = EmptyFs
    /\ _read_only = FALSE
    /\ _db_path = TRUE
    /\ backup_path = EmptyObject
    /\ heap = NoObjects
    /\ path_exists = TRUE
    /\ _activities = load_collection(osfs[ACTIVITIES_NAME].content)
    /\ _resources = load_collection(osfs[RESOURCES_NAME].content)
    /\ clock = 0
    /\ alive = TRUE
    /\ last = Call("__init__")
    /\ ghost = History(osfs, TRUE, osfs, NoError)
    /\ calls = 0

call_next_id ==
    /\ alive
    /\ last.op = "__init__"
    /\ last' = [op |-> "_next_id", arg |-> DOMAIN _activities, ret |-> Some(_next_id(_activities)),
                found |-> None, pre |-> Collections]
    /\ UNCHANGED <<colVars, fsVars>>

NextNextId == call_next_id /\ UNCHANGED calls

SpecNextId == InitLoaded /\ [][NextNextId]_vars

\* C4: _next_id returns the minimum of {1 .. max(K)+1} minus K, the
\* smallest positive integer not in K, and 1 for the empty collection.
NextIdIsSmallestUnused ==
    last.op = "_next_id" =>
        LET K == last.arg
        IN  last.ret = Some(IF K = {} THEN 1 ELSE Min((1..(Max(K) + 1)) \ K))

----------------------------------------------------------------------------
(* Resources: insert and upsert on a db constructed without a path *)

Paths == {"rec.gpx", "sum.json"}
Contents == {"c1", "c2"}

\* Resource( uid=..., path=..., content=... ): the id is assigned by the db
Resource(uid, path, content) == [id |-> NoId, uid |-> uid, path |-> path, content |-> content]

ResourceInputs == {Resource(uid, path, content) : uid \in SeqToSet(UIDS), path \in Paths, content \in Contents}

\* get_resource_by_uid_path: the keys of the resources it can return
get_resource_by_uid_path(resources, uid, path) ==
    {k \in DOMAIN resources : resources[k].uid = uid /\ resources[k].path = path}

insert_resource(resource) ==
    LET id == _next_id(_resources)
    IN  /\ alive
        /\ Cardinality(DOMAIN _resources) < MaxResources
        /\ _resources' = DictSet(_resources, id, [resource EXCEPT !.id = id])
        /\ last' = [op |-> "insert_resource", arg |-> resource, ret |-> Some(id),
                    found |-> None, pre |-> Collections]
        /\ UNCHANGED <<_activities, fsVars>>

\* the key a found resource is replaced under: existing.id
upsert_key(resources, existing) == resources[existing].id

upsert_resource(resource) ==
    /\ alive
    /\ \/ \E existing \in get_resource_by_uid_path(_resources, resource.uid, resource.path) :
            LET key == upsert_key(_resources, existing)
            IN  /\ Cardinality(DOMAIN _resources \cup {key}) <= MaxResources
                /\ _resources' = DictSet(_resources, key, resource)
                /\ last' = [op |-> "upsert_resource", arg |-> resource, ret |-> Some(key),
                            found |-> Some(existing), pre |-> Collections]
       \/ /\ get_resource_by_uid_path(_resources, resource.uid, resource.path) = {}
          /\ Cardinality(DOMAIN _resources) < MaxResources
          /\ LET id == _next_id(_resources)
             IN  /\ _resources' = DictSet(_resources, id, [resource EXCEPT !.id = id])
                 /\ last' = [op |-> "upsert_resource", arg |-> resource, ret |-> Some(id),
                             found |-> None, pre |-> Collections]
    /\ UNCHANGED <<_activities, fsVars>>

NextResources ==
    \/ \E r \in ResourceInputs : insert_resource(r) /\ UNCHANGED calls
    \/ \E r \in ResourceInputs : upsert_resource(r) /\ UNCHANGED calls

SpecResources == InitEphemeral /\ [][NextResources]_vars

SamePair(r, q) == r.uid = q.uid /\ r.path = q.path

\* C5: upsert_resource( r ): if a stored resource has r's (uid, path) pair,
\* the collection afterwards holds r's content under the existing id, the
\* number of stored resources is unchanged and the existing id is returned;
\* otherwise r is inserted and the returned id was not stored before.
UpsertResourceReplacesOrInserts ==
    last.op = "upsert_resource" =>
        LET pre == last.pre.resources
            matches == {k \in DOMAIN pre : SamePair(pre[k], last.arg)}
        IN  IF matches # {}
            THEN /\ DOMAIN _resources = DOMAIN pre
                 /\ \E k \in matches :
                        /\ last.ret = Some(k)
                        /\ SamePair(_resources[k], last.arg)
                        /\ _resources[k].content = last.arg.content
            ELSE \E k \in DOMAIN _resources \ DOMAIN pre :
                        /\ last.ret = Some(k)
                        /\ DOMAIN _resources = DOMAIN pre \cup {k}
                        /\ _resources[k] = [last.arg EXCEPT !.id = k]

\* C6: in every state reachable through insert_resource and upsert_resource
\* from an empty db, no two stored resources have the same (uid, path) pair.
ResourcePairsUnique ==
    \A j, k \in DOMAIN _resources : j # k => ~SamePair(_resources[j], _resources[k])

----------------------------------------------------------------------------
(* The layered store: construction, commit, save, close *)

\* a faulty _init_filesystem: the defaults are written over the files there
init_filesystem_overwrite(disk, t) ==
    [f \in DOMAIN disk \cup SeqToSet(DB_FILES) |->
        IF f \in SeqToSet(DB_FILES) THEN File(DefaultContent(f), t) ELSE disk[f]]

\* _init_filesystem: seed the missing db files on disk at time t
init_filesystem(disk, t) ==
    [f \in DOMAIN disk \cup SeqToSet(DB_FILES) |-> IF f \in DOMAIN disk THEN disk[f] ELSE File(DefaultContent(f), t)]

\* copy_file( ..., preserve_time=True ) of the five db files
copy_db_files(fs) == [f \in SeqToSet(DB_FILES) |-> fs[f]]

\* a faulty commit_files: commit_activities is left out
commit_files_resources_only(fs, activities, resources, t) ==
    WriteFile(fs, RESOURCES_NAME, write_collection(resources), t)

\* commit_resources() then commit_activities(): both files written to fs at time t
commit_files(fs, activities, resources, t) ==
    WriteFile(WriteFile(fs, RESOURCES_NAME, write_collection(resources), t),
              ACTIVITIES_NAME, write_collection(activities), t)

\* a faulty commit_layers: the files are written to underlay_fs
commit_layers_underlay(under, over, activities, resources, t) ==
    [underlay |-> commit_files(under, activities, resources, t), overlay |-> over]

\* the layers after commit(): the files are written to overlay_fs
commit_layers(under, over, activities, resources, t) ==
    [underlay |-> under, overlay |-> commit_files(over, activities, resources, t)]

\* the condition 'newer' of copy_file_if: the destination does not exist or
\* the source was modified later
source_is_newer_or_same(src, dst, f) == f \notin DOMAIN dst \/ src[f].modified >= dst[f].modified

source_is_newer(src, dst, f) == f \notin DOMAIN dst \/ src[f].modified > dst[f].modified

\* a faulty save loop: every file is copied, newer or not
RECURSIVE copy_files_always(_, _, _, _)
copy_files_always(dst, src, files, t) ==
    IF files = <<>> THEN [fs |-> dst, raised |-> NoError]
    ELSE LET f == Head(files)
         IN  IF f \notin DOMAIN src THEN [fs |-> dst, raised |-> "ResourceNotFound"]
             ELSE copy_files_always(WriteFile(dst, f, src[f].content, t), src, Tail(files), t)

\* the loop of save() over the files at time t: the underlay afterwards and
\* the error raised, if any (a file missing in the overlay cannot be copied)
RECURSIVE copy_files(_, _, _, _)
copy_files(dst, src, files, t) ==
    IF files = <<>> THEN [fs |-> dst, raised |-> NoError]
    ELSE LET f == Head(files)
         IN  IF f \notin DOMAIN src THEN [fs |-> dst, raised |-> "ResourceNotFound"]
             ELSE IF source_is_newer(src, dst, f)
                  THEN copy_files(WriteFile(dst, f, src[f].content, t), src, Tail(files), t)
                  ELSE copy_files(dst, src, Tail(files), t)

\* copy_file( osfs, f, underlay_fs, f, preserve_time=True ) over the db files:
\* a file missing on disk raises ResourceNotFound and ends the loop
RECURSIVE copy_from_disk(_, _, _)
copy_from_disk(disk, under, files) ==
    IF files = <<>> THEN [fs |-> under, raised |-> NoError]
    ELSE LET f == Head(files)
         IN  IF f \notin DOMAIN disk THEN [fs |-> under, raised |-> "ResourceNotFound"]
             ELSE copy_from_disk(disk, WriteFile(under, f, disk[f].content, disk[f].modified), Tail(files))

\* a faulty _init_readonly_filesystem: the missing path is created
init_readonly_filesystem_mkdir(exists, disk) ==
    LET copied == copy_from_disk(disk, EmptyFs, DB_FILES)
    IN  [raised |-> copied.raised, exists |-> TRUE, disk |-> disk,
         underlay |-> copied.fs, overlay |-> EmptyFs]

\* _init_readonly_filesystem: sysexit( -1 ) when the path does not exist,
\* else the db files are copied from disk into a MemoryFS underlay
init_readonly_filesystem(exists, disk) ==
    IF ~exists
    THEN [raised |-> "SystemExit", exists |-> FALSE, disk |-> disk,
          underlay |-> EmptyFs, overlay |-> EmptyFs]
    ELSE LET copied == copy_from_disk(disk, EmptyFs, DB_FILES)
         IN  [raised |-> copied.raised, exists |-> TRUE, disk |-> disk,
              underlay |-> copied.fs, overlay |-> EmptyFs]

\* _init_db_filesystem at time t: the layers of the three modes
init_db_filesystem(has_path, read_only, exists, disk, t) ==
    IF ~has_path
    THEN [raised |-> NoError, exists |-> exists, disk |-> disk,
          underlay |-> SeededFs(t), overlay |-> EmptyFs]
    ELSE IF read_only
    THEN init_readonly_filesystem(exists, disk)
    ELSE [raised |-> NoError, exists |-> TRUE, disk |-> init_filesystem(disk, t),
          underlay |-> init_filesystem(disk, t), overlay |-> copy_db_files(init_filesystem(disk, t))]

\* ActivityDb( path, read_only ): the layers, and the collections _load_db
\* reads through dbfs; nothing is loaded when the layers could not be set up
ActivityDb(has_path, read_only, exists, disk, t) ==
    LET fs == init_db_filesystem(has_path, read_only, exists, disk, t)
        ok == fs.raised = NoError
    IN  [raised |-> fs.raised, exists |-> fs.exists, disk |-> fs.disk,
         underlay |-> fs.underlay, overlay |-> fs.overlay,
         memfs |-> IF has_path /\ ~read_only THEN EmptyFs ELSE fs.underlay,
         resources |-> IF ok THEN load_collection(dbfs_read(fs.underlay, fs.overlay, RESOURCES_NAME).content)
                       ELSE EmptyObject,
         activities |-> IF ok THEN load_collection(dbfs_read(fs.underlay, fs.overlay, ACTIVITIES_NAME).content)
                        ELSE EmptyObject]

\* the directories a db is opened on: no directory, an empty one, one that
\* holds activities.json only, and the directory of a new db
PartialFs == [f \in {ACTIVITIES_NAME} |-> File(DefaultContent(f), 0)]
Directories ==
    {[exists |-> FALSE, files |-> EmptyFs], [exists |-> TRUE, files |-> EmptyFs],
     [exists |-> TRUE, files |-> PartialFs], [exists |-> TRUE, files |-> SeededFs(0)]}

\* the modes of construction: ActivityDb( path ), ActivityDb( path,
\* read_only=True ) and ActivityDb()
Modes ==
    {[has_path |-> TRUE, read_only |-> FALSE, dir |-> d] : d \in Directories}
    \cup {[has_path |-> TRUE, read_only |-> TRUE, dir |-> d] : d \in Directories}
    \cup {[has_path |-> FALSE, read_only |-> FALSE, dir |-> [exists |-> FALSE, files |-> EmptyFs]]}

InitStore ==
    \E m \in Modes :
        LET db == ActivityDb(m.has_path, m.read_only, m.dir.exists, m.dir.files, 0)
        IN  /\ _db_path = m.has_path
            /\ backup_path = EmptyObject
            /\ heap = NoObjects
            /\ _read_only = m.read_only
            /\ path_exists = db.exists
            /\ osfs = db.disk
            /\ memfs = db.memfs
            /\ overlay = db.overlay
            /\ _resources = db.resources
            /\ _activities = db.activities
            /\ clock = 0
            /\ alive = (db.raised = NoError)
            /\ last = [Call("__init__") EXCEPT !.arg = Some(m.read_only),
                                               !.ret = IF db.raised = NoError THEN None ELSE Some(db.raised)]
            /\ ghost = History(db.underlay, m.dir.exists, m.dir.files, db.raised)
            /\ calls = 0

\* a new ActivityDb( path, read_only ) on the path of this db
reopen(read_only) ==
    /\ _db_path
    /\ LET db == ActivityDb(TRUE, read_only, path_exists, osfs, clock)
       IN  /\ _read_only' = read_only
           /\ _db_path' = TRUE
           /\ backup_path' = backup_path
           /\ heap' = heap
           /\ path_exists' = db.exists
           /\ osfs' = db.disk
           /\ memfs' = db.memfs
           /\ overlay' = db.overlay
           /\ _resources' = db.resources
           /\ _activities' = db.activities
           /\ clock' = clock
           /\ alive' = (db.raised = NoError)
           /\ ghost' = [History(db.underlay, path_exists, osfs, db.raised) EXCEPT !.commits = ghost.commits \cup {DefaultCommit}]
           /\ last' = [op |-> "reopen", arg |-> Some(read_only),
                       ret |-> IF db.raised = NoError THEN None ELSE Some(db.raised),
                       found |-> None,
                       pre |-> [committed |-> ghost.committed, saved |-> ghost.saved,
                                read_only |-> _read_only, op |-> last.op, ret |-> last.ret,
                                underlay |-> underlay_fs, underlay0 |-> ghost.underlay0,
                                activities |-> _activities,
                                resources |-> _resources]]

\* the body of commit( do_commit ): the collections are written when write holds
Commit(write, do_commit) ==
    /\ alive
    /\ IF write
       THEN LET written == commit_layers(underlay_fs, overlay, _activities, _resources, clock + 1)
            IN  /\ clock < MaxClock
                /\ clock' = clock + 1
                /\ overlay' = written.overlay
                /\ IF _db_path /\ ~_read_only THEN osfs' = written.underlay /\ memfs' = memfs
                                              ELSE memfs' = written.underlay /\ osfs' = osfs
                /\ ghost' = [ghost EXCEPT !.committed = Some(Collections),
                                          !.saved = FALSE,
                                          !.restored = None,
                                          !.commits = @ \cup {<<write_collection(_activities), write_collection(_resources)>>}]
       ELSE UNCHANGED <<osfs, memfs, overlay, clock, ghost>>
    /\ last' = [op |-> "commit", arg |-> Some(do_commit), ret |-> None, found |-> None, pre |-> Layers]
    /\ UNCHANGED <<colVars, _read_only, _db_path, backup_path, path_exists, alive, heap>>

\* a faulty commit: do_commit is not looked at
commit_always(do_commit) == Commit(TRUE, do_commit)

commit(do_commit) == Commit(do_commit, do_commit)

\* remove_activities( activities, auto_commit ): the activities with these
\* ids are removed, then commit( auto_commit )
remove_activities(ids, auto_commit) ==
    /\ alive
    /\ ids \subseteq DOMAIN _activities
    /\ LET removed == [k \in DOMAIN _activities \ ids |-> _activities[k]]
           written == commit_layers(underlay_fs, overlay, removed, _resources, clock + 1)
       IN  /\ _activities' = removed
           /\ IF auto_commit
              THEN /\ clock < MaxClock
                   /\ clock' = clock + 1
                   /\ overlay' = written.overlay
                   /\ IF _db_path /\ ~_read_only THEN osfs' = written.underlay /\ memfs' = memfs
                                                 ELSE memfs' = written.underlay /\ osfs' = osfs
                   /\ ghost' = [ghost EXCEPT !.committed = Some([activities |-> removed, resources |-> _resources]),
                                             !.saved = FALSE,
                                             !.restored = None,
                                             !.commits = @ \cup {<<write_collection(removed), write_collection(_resources)>>}]
              ELSE UNCHANGED <<osfs, memfs, overlay, clock, ghost>>
    /\ last' = [op |-> "remove_activities", arg |-> Some(auto_commit), ret |-> None,
                found |-> Some(ids), pre |-> Layers]
    /\ UNCHANGED <<_resources, _read_only, _db_path, backup_path, path_exists, alive, heap>>

\* save() that handles the first n of the db files; n = 5 is the whole loop
SaveFiles(op, n, killed) ==
    /\ alive
    /\ IF _read_only
       THEN /\ ~killed
            /\ UNCHANGED <<osfs, memfs, clock>>
            /\ ghost' = [ghost EXCEPT !.save_called = TRUE]
            /\ last' = [op |-> op, arg |-> None, ret |-> None, found |-> None, pre |-> Layers]
       ELSE LET copied == copy_files(underlay_fs, overlay, SubSeq(DB_FILES, 1, n), clock + 1)
            IN  /\ clock < MaxClock
                /\ clock' = IF copied.fs = underlay_fs THEN clock ELSE clock + 1
                /\ IF _db_path THEN osfs' = copied.fs /\ memfs' = memfs
                               ELSE memfs' = copied.fs /\ osfs' = osfs
                /\ ghost' = [ghost EXCEPT !.save_called = TRUE,
                                          !.saved = (@ \/ (~killed /\ copied.raised = NoError)) /\ ghost.committed # None]
                /\ last' = [op |-> op, arg |-> None,
                            ret |-> IF killed THEN Some("killed") ELSE IF copied.raised = NoError THEN None ELSE Some(copied.raised),
                            found |-> None, pre |-> Layers]
    /\ alive' = ~killed
    /\ UNCHANGED <<colVars, _read_only, _db_path, backup_path, path_exists, overlay, heap>>

save == SaveFiles("save", Len(DB_FILES), FALSE)

\* a faulty close: the collections are committed before they are saved
close_autocommit ==
    /\ alive /\ _db_path /\ ~_read_only
    /\ clock + 1 < MaxClock
    /\ LET written == commit_files(overlay, _activities, _resources, clock + 1)
           copied == copy_files(osfs, written, DB_FILES, clock + 2)
       IN  /\ overlay' = written
           /\ osfs' = copied.fs
           /\ clock' = clock + 2
           /\ ghost' = [ghost EXCEPT !.save_called = TRUE, !.committed = Some(Collections), !.saved = TRUE,
                                     !.commits = @ \cup {<<write_collection(_activities), write_collection(_resources)>>}]
           /\ last' = [op |-> "close", arg |-> None, ret |-> None, found |-> None, pre |-> Layers]
    /\ UNCHANGED <<colVars, _read_only, _db_path, backup_path, path_exists, memfs, alive, heap>>

close == SaveFiles("close", Len(DB_FILES), FALSE)

\* the process is killed in save() after n of the five files were handled
save_interrupted(n) == SaveFiles("save", n, TRUE)

StoreActivity == Activity(<<UIDS[1]>>, Some("One"), None)
StoreResource == Resource(UIDS[1], "rec.gpx", "c1")

\* one more call of a behaviour of at most MaxCalls calls
Called == calls < MaxCalls /\ calls' = calls + 1

NextStore ==
    \/ Called /\ insert_activity(StoreActivity)
    \/ Called /\ upsert_activity(StoreActivity)
    \/ Called /\ \E id \in DOMAIN _activities : remove_activity(id)
    \/ Called /\ insert_resource(StoreResource)
    \/ Called /\ upsert_resource(StoreResource)
    \/ Called /\ \E do_commit \in BOOLEAN : commit(do_commit)
    \/ Called /\ \E ids \in SUBSET DOMAIN _activities, auto_commit \in BOOLEAN :
                    ids # {} /\ remove_activities(ids, auto_commit)
    \/ Called /\ save
    \/ Called /\ close
    \/ Called /\ \E n \in 0..(Len(DB_FILES) - 1) : save_interrupted(n)
    \/ Called /\ \E read_only \in BOOLEAN : reopen(read_only)

SpecStore == InitStore /\ [][NextStore]_vars

\* C7: as long as neither save() nor close() was called, whatever was
\* inserted, upserted, removed and committed, the underlay files are the ones
\* the construction of the db left.
UnderlayUntouchedBeforeSave ==
    ~ghost.save_called => underlay_fs = ghost.underlay0

\* a commit of stored activities and resources, before any save() or close()
CommitBeforeSaveWitness ==
    /\ ~ghost.save_called
    /\ last.op = "commit" /\ last.arg = Some(TRUE)
    /\ DOMAIN _activities # {} /\ DOMAIN _resources # {}
    /\ overlay[ACTIVITIES_NAME].content # underlay_fs[ACTIVITIES_NAME].content
    /\ overlay[RESOURCES_NAME].content # underlay_fs[RESOURCES_NAME].content

\* C8: at every point of an execution, a save() interrupted between two files
\* included, activities.json and resources.json of the durable underlay
\* hold the content of one and the same commit.
DurableAllOrNothing ==
    (_db_path /\ ~_read_only) =>
        <<osfs[ACTIVITIES_NAME].content, osfs[RESOURCES_NAME].content>> \in ghost.commits

\* C9: after commit() and then save() on a read-write db on a path, a fresh
\* ActivityDb on the same path loads the collections the first instance had
\* in memory at the time of the commit.
SaveThenReopenRoundTrip ==
    (last.op = "reopen" /\ last.pre.saved) =>
        /\ _activities = last.pre.committed[1].activities
        /\ _resources = last.pre.committed[1].resources

\* a fresh read-write instance that loaded a stored activity and a stored
\* resource committed and saved by the instance before it
ReopenLoadedWitness ==
    /\ last.op = "reopen" /\ last.pre.saved /\ last.arg = Some(FALSE)
    /\ DOMAIN _activities # {} /\ DOMAIN _resources # {}

\* C10: save() on a read-write db with a path replaces the underlay file by
\* the overlay file exactly when the overlay file was modified strictly
\* later; an underlay file as new as or newer than the overlay file is left
\* unchanged.
SaveCopiesExactlyNewer ==
    (last.op = "save" /\ last.ret = None /\ _db_path /\ ~_read_only) =>
        \A f \in SeqToSet(DB_FILES) :
            LET o == last.pre.overlay[f]
                u == last.pre.underlay[f]
            IN  IF o.modified > u.modified
                THEN osfs[f].content = o.content /\ osfs[f].modified > u.modified
                ELSE osfs[f] = u

\* a save() that copied the committed activities.json and left the files
\* untouched whose overlay copy is as old as the underlay file
SaveCopiedWitness ==
    /\ last.op = "save" /\ last.ret = None /\ _db_path /\ ~_read_only
    /\ last.pre.overlay[ACTIVITIES_NAME].modified > last.pre.underlay[ACTIVITIES_NAME].modified
    /\ last.pre.overlay[ACTIVITIES_NAME].content # last.pre.underlay[ACTIVITIES_NAME].content
    /\ last.pre.overlay[SCHEMA_NAME].modified = last.pre.underlay[SCHEMA_NAME].modified
    /\ osfs[ACTIVITIES_NAME].content = last.pre.overlay[ACTIVITIES_NAME].content

\* C11: save() on a read-only db and save() on a db without a path is a
\* no-op: it raises no error and leaves every file of both layers and of the
\* disk as it was.
SaveIsNoOpWithoutDisk ==
    (last.op = "save" /\ last.ret # Some("killed") /\ (_read_only \/ ~_db_path)) =>
        /\ last.ret = None
        /\ underlay_fs = last.pre.underlay
        /\ overlay = last.pre.overlay
        /\ osfs = last.pre.disk.files /\ path_exists = last.pre.disk.exists

\* the collections in memory are not the ones the overlay holds: something was
\* inserted, upserted or removed after the last commit()
Uncommitted ==
    \/ write_collection(_activities) # overlay[ACTIVITIES_NAME].content
    \/ write_collection(_resources) # overlay[RESOURCES_NAME].content

\* C12 as stated: when something was inserted, upserted or removed and not
\* committed afterwards, close() leaves activities.json and resources.json
\* of the underlay unchanged.
CloseLeavesUnderlayUnchanged ==
    (last.op = "close" /\ last.ret = None /\ _db_path /\ ~_read_only /\ Uncommitted) =>
        \A f \in {ACTIVITIES_NAME, RESOURCES_NAME} : osfs[f].content = last.pre.underlay[f].content

\* C12, amended: close() commits nothing, it leaves the overlay and the
\* collections as they are and brings the underlay's activities.json and
\* resources.json to the content of the last commit() (leaving them unchanged
\* when nothing was committed); a fresh db on the same path then holds the
\* collections of the last commit, or those the closed db had loaded when it
\* was constructed, whatever was inserted, upserted or removed afterwards.
CloseSavesLastCommitOnly ==
    /\ (last.op = "close" /\ last.ret = None /\ _db_path /\ ~_read_only) =>
          /\ overlay = last.pre.overlay
          /\ _activities = last.pre.activities /\ _resources = last.pre.resources
          /\ \A f \in {ACTIVITIES_NAME, RESOURCES_NAME} : osfs[f].content = overlay[f].content
          /\ IF ghost.committed = None
             THEN \A f \in {ACTIVITIES_NAME, RESOURCES_NAME} : osfs[f] = last.pre.underlay[f]
             ELSE /\ osfs[ACTIVITIES_NAME].content = write_collection(ghost.committed[1].activities)
                  /\ osfs[RESOURCES_NAME].content = write_collection(ghost.committed[1].resources)
    /\ (last.op = "reopen" /\ last.ret = None /\ last.pre.op = "close" /\ last.pre.ret = None
        /\ ~last.pre.read_only) =>
          IF last.pre.committed = None
          THEN /\ _activities = load_collection(last.pre.underlay0[ACTIVITIES_NAME].content)
               /\ _resources = load_collection(last.pre.underlay0[RESOURCES_NAME].content)
          ELSE /\ _activities = last.pre.committed[1].activities
               /\ _resources = last.pre.committed[1].resources

\* a fresh db opened after close(): the closed db had committed one activity
\* and inserted a second one afterwards, which the fresh db does not hold
CloseDroppedUncommittedWitness ==
    /\ last.op = "reopen" /\ last.ret = None /\ last.pre.op = "close" /\ last.pre.ret = None
    /\ ~last.pre.read_only
    /\ last.pre.committed # None
    /\ DOMAIN _activities # {}
    /\ Cardinality(DOMAIN last.pre.activities) > Cardinality(DOMAIN _activities)

\* C13: commit( do_commit=False ) and remove_activities with auto_commit
\* False change no file of the overlay or the underlay (the former changes
\* no record in memory, the latter removes the records it is given);
\* commit() writes the collections in memory to resources.json and
\* activities.json of the overlay and changes no other overlay file, no
\* underlay file and no record in memory.
CommitWritesOverlayOnly ==
    /\ (last.op \in {"commit", "remove_activities"} /\ last.arg = Some(FALSE)) =>
          /\ overlay = last.pre.overlay
          /\ underlay_fs = last.pre.underlay
          /\ osfs = last.pre.disk.files
    /\ last.op = "commit" =>
          _activities = last.pre.activities /\ _resources = last.pre.resources
    /\ last.op = "remove_activities" =>
          /\ _activities = [k \in DOMAIN last.pre.activities \ last.found[1] |-> last.pre.activities[k]]
          /\ _resources = last.pre.resources
    /\ (last.op = "commit" /\ last.arg = Some(TRUE)) =>
          /\ overlay[ACTIVITIES_NAME].content = write_collection(_activities)
          /\ overlay[RESOURCES_NAME].content = write_collection(_resources)
          /\ DOMAIN overlay = DOMAIN last.pre.overlay \cup {ACTIVITIES_NAME, RESOURCES_NAME}
          /\ \A f \in DOMAIN overlay \ {ACTIVITIES_NAME, RESOURCES_NAME} : overlay[f] = last.pre.overlay[f]
          /\ underlay_fs = last.pre.underlay
          /\ osfs = last.pre.disk.files

\* a commit() on a read-write db that wrote a stored activity and a stored
\* resource to the overlay, whose other files and whose underlay stayed
CommitWroteOverlayWitness ==
    /\ last.op = "commit" /\ last.arg = Some(TRUE)
    /\ _db_path /\ ~_read_only
    /\ DOMAIN _activities # {} /\ DOMAIN _resources # {}
    /\ overlay[ACTIVITIES_NAME] # last.pre.overlay[ACTIVITIES_NAME]
    /\ overlay[RESOURCES_NAME] # last.pre.overlay[RESOURCES_NAME]
    /\ overlay[INDEX_NAME] = last.pre.overlay[INDEX_NAME]
    /\ osfs = last.pre.underlay

\* C14: once a db is constructed, in any of the three modes, each of the five
\* db files exists in the underlay and in the overlay, in every state.
FilesInBothLayers ==
    ghost.raised = NoError =>
        \A f \in SeqToSet(DB_FILES) : f \in DOMAIN underlay_fs /\ f \in DOMAIN overlay

\* C15: a db opened read-only on an existing directory, one without db files
\* included, is constructed, holds the five files in its in-memory underlay
\* (the defaults for those the directory lacks) and leaves the directory
\* with the files and contents it had before the open, whatever is called.
ReadOnlyNeverWritesDisk ==
    (_read_only /\ ghost.disk0.exists) =>
        /\ path_exists /\ osfs = ghost.disk0.files
        /\ ghost.raised = NoError
        /\ \A f \in SeqToSet(DB_FILES) :
              /\ f \in DOMAIN ghost.underlay0
              /\ f \notin DOMAIN ghost.disk0.files => ghost.underlay0[f].content = DefaultContent(f)

\* C16: ActivityDb( path, read_only=True ) on a path that does not exist ends
\* the process at open time with an error status: no layer is set up,
\* nothing is loaded, and the path and its files are not created.
ReadOnlyOpenOnMissingPathExits ==
    (last.op \in {"__init__", "reopen"} /\ last.arg = Some(TRUE) /\ ~ghost.disk0.exists) =>
        /\ last.ret = Some("SystemExit")
        /\ ~alive
        /\ ~path_exists /\ osfs = EmptyFs
        /\ memfs = EmptyFs /\ overlay = EmptyFs
        /\ _activities = EmptyObject /\ _resources = EmptyObject

\* a read-only open on a missing path, after an earlier one had failed too
ReadOnlyOpenExitedWitness ==
    /\ last.op = "reopen" /\ last.arg = Some(TRUE)
    /\ ~ghost.disk0.exists
    /\ last.ret = Some("SystemExit")

\* C17: after commit(), a read of activities.json or resources.json through
\* the combined filesystem returns the committed content, the overlay file
\* shadowing the underlay file, which commit() has left as it was.
CommitReadsThroughOverlay ==
    (last.op = "commit" /\ last.arg = Some(TRUE)) =>
        /\ ReadFile(ACTIVITIES_NAME).content = write_collection(_activities)
        /\ ReadFile(RESOURCES_NAME).content = write_collection(_resources)
        /\ underlay_fs = last.pre.underlay

\* a commit() after which both files read through the combined filesystem
\* differ from the files the underlay holds
CommittedShadowsUnderlayWitness ==
    /\ last.op = "commit" /\ last.arg = Some(TRUE)
    /\ _db_path
    /\ ReadFile(ACTIVITIES_NAME).content # underlay_fs[ACTIVITIES_NAME].content
    /\ ReadFile(RESOURCES_NAME).content # underlay_fs[RESOURCES_NAME].content
    /\ ReadFile(ACTIVITIES_NAME).content = write_collection(_activities)
    /\ ReadFile(SCHEMA_NAME) = underlay_fs[SCHEMA_NAME]

----------------------------------------------------------------------------
(* The merge of activities: union, and the merge loop of the constructor   *)
(* Activity( others=[...], force=... ), the implicit union                 *)

\* the fields whose metadata holds PROTECTED: no field( ... ) of Activity is
\* given any metadata, id = field( default=0 ) included
ProtectedFields == {}

\* the values of a field that 'if value := getattr( o, f.name )' takes as false
Falsy(f) ==
    CASE f = "id" -> {NoId}
      [] f = "uids" -> {<<>>}
      [] f = "name" -> {None, Some("")}
      [] f = "distance" -> {None, Some(0)}

\* 'for o in others' for the field f, value being what self holds so far
RECURSIVE MergeField(_, _, _, _)
MergeField(f, value, others, force) ==
    IF others = <<>> THEN value
    ELSE LET v == Head(others)[f]
         IN  IF v \notin Falsy(f)
             THEN LET set == IF f \notin ProtectedFields \/ force THEN v ELSE value
                  IN  IF ~force THEN set ELSE MergeField(f, set, Tail(others), force)
             ELSE MergeField(f, value, Tail(others), force)

\* Activity.__init_from_others__( others, force )
__init_from_others__(self, others, force) ==
    [f \in DOMAIN self |-> MergeField(f, self[f], others, force)]

\* the activities handed to a merge: a name, a distance (0 is a distance) or
\* neither; the i-th of a call is stored under id i, or is a new one without
\* an id
MergeValues ==
    {<<None, None>>, <<Some("One"), None>>, <<Some("Two"), Some(0)>>, <<None, Some(10)>>}
MergeSources(i) ==
    {[Activity(<<u>>, v[1], v[2]) EXCEPT !.id = i] : u \in SeqToSet(UIDS), v \in MergeValues}
    \cup {Activity(<<UIDS[1]>>, None, None)}
\* the lists [self, *others] of n activities, and those of at most MaxOthers others
RECURSIVE MergeListsOf(_)
MergeListsOf(n) ==
    IF n = 0 THEN {<<>>}
    ELSE {Append(l, a) : l \in MergeListsOf(n - 1), a \in MergeSources(n)}
MergeLists == UNION {MergeListsOf(n) : n \in 1..(MaxOthers + 1)}

\* a merge about to be made: the sources [self, *others] and force
InitUnion ==
    /\ _activities = EmptyObject
    /\ _resources = EmptyObject
    /\ _read_only = FALSE
    /\ _db_path = FALSE
    /\ backup_path = EmptyObject
    /\ heap = NoObjects
    /\ path_exists = FALSE
    /\ osfs = EmptyFs
    /\ memfs = SeededFs(0)
    /\ overlay = EmptyFs
    /\ clock = 0
    /\ alive = TRUE
    /\ \E sources \in MergeLists, force \in BOOLEAN :
          last = [Call("__init__") EXCEPT !.arg = [sources |-> sources, force |-> force]]
    /\ ghost = History(SeededFs(0), FALSE, EmptyFs, NoError)
    /\ calls = 0

\* self.union( others, force=force, copy=True )
call_union ==
    /\ last.op = "__init__"
    /\ last' = [op |-> "union", arg |-> last.arg,
                ret |-> Some(union(Head(last.arg.sources), Tail(last.arg.sources), last.arg.force)),
                found |-> None, pre |-> None]
    /\ UNCHANGED <<colVars, fsVars>>

\* Activity( others=[self, *others], force=force )
call_init_from_others ==
    /\ last.op = "__init__"
    /\ last' = [op |-> "__init_from_others__", arg |-> last.arg,
                ret |-> Some(__init_from_others__(Activity(<<>>, None, None), last.arg.sources, last.arg.force)),
                found |-> None, pre |-> None]
    /\ UNCHANGED <<colVars, fsVars>>

\* a faulty union: the merge is made in self, copy=True returns a copy of it
union_copy_of_merged_self(objects, force, copy) ==
    LET merged == union(Head(objects), Tail(objects), force)
    IN  IF copy
        THEN [ret |-> Len(objects) + 1, objects |-> Append([objects EXCEPT ![1] = merged], merged)]
        ELSE [ret |-> 1, objects |-> [objects EXCEPT ![1] = merged]]

\* self.union( others, force, copy ) on the objects [self, *others], the i-th
\* of them at address i: the address returned and the objects afterwards
union_copy(objects, force, copy) ==
    LET merged == union(Head(objects), Tail(objects), force)
    IN  IF copy
        THEN [ret |-> Len(objects) + 1, objects |-> Append(objects, merged)]
        ELSE [ret |-> 1, objects |-> [objects EXCEPT ![1] = merged]]

\* self.union( others, force=force, copy=copy ), last.found being the objects
\* after the call
call_union_copy(copy) ==
    /\ last.op = "__init__"
    /\ LET r == union_copy(last.arg.sources, last.arg.force, copy)
       IN  last' = [op |-> "union_copy",
                    arg |-> [sources |-> last.arg.sources, force |-> last.arg.force, copy |-> copy],
                    ret |-> Some(r.ret), found |-> r.objects, pre |-> None]
    /\ UNCHANGED <<colVars, fsVars>>

NextUnion ==
    \/ call_union /\ UNCHANGED calls
    \/ call_init_from_others /\ UNCHANGED calls
    \/ \E copy \in BOOLEAN : call_union_copy(copy) /\ UNCHANGED calls

SpecUnion == InitUnion /\ [][NextUnion]_vars

\* the values of the field f of the sources of the last merge, in order
SourceValues(f) == [i \in 1..Len(last.arg.sources) |-> last.arg.sources[i][f]]

\* C18: without force, every mergeable field of the merged record holds the
\* first non-null value of the sources [self, *others] in order, 0 being a
\* value like any other.
MergeFirstNonNullWins ==
    (last.op = "__init_from_others__" /\ ~last.arg.force) =>
        \A f \in MergeFields : last.ret[1][f] = FirstNonNull(SourceValues(f))

\* the ids of the sources of the last merge, an unset id being null
SourceIds == [i \in 1..Len(last.arg.sources) |->
                 IF last.arg.sources[i].id = NoId THEN None ELSE Some(last.arg.sources[i].id)]

\* C19: with force, every field of the merged record, the protected id
\* included, holds the last non-null value of the sources [self, *others] in
\* order; a null value of a later source erases nothing.
MergeForceLastNonNullWins ==
    (last.op = "__init_from_others__" /\ last.arg.force) =>
        /\ \A f \in MergeFields : last.ret[1][f] = LastNonNull(SourceValues(f))
        /\ last.ret[1].id = (IF LastNonNull(SourceIds) = None THEN NoId ELSE LastNonNull(SourceIds)[1])

\* C20: a.union( others ) without force keeps a's id whatever ids the others
\* carry, and its uids are the uids of a and of all others, each once, in
\* sorted order.
UnionKeepsIdAndUnitesUids ==
    (last.op = "union" /\ ~last.arg.force) =>
        LET merged == last.ret[1]
        IN  /\ merged.id = Head(last.arg.sources).id
            /\ SeqToSet(merged.uids) = UNION {SeqToSet(last.arg.sources[i].uids) : i \in 1..Len(last.arg.sources)}
            /\ \A i, j \in 1..Len(merged.uids) : i < j => UidIndex(merged.uids[i]) < UidIndex(merged.uids[j])

\* a union of a stored activity with two others that carry other ids, the
\* first of the others bringing a uid that sorts before the one a has
UnionUnitedUidsWitness ==
    /\ last.op = "union" /\ ~last.arg.force
    /\ Len(last.arg.sources) = 3
    /\ last.arg.sources[1].id = 1 /\ last.arg.sources[2].id = 2 /\ last.arg.sources[3].id = 3
    /\ last.arg.sources[1].uids = <<UIDS[2]>>
    /\ last.arg.sources[2].uids = <<UIDS[1]>>
    /\ last.arg.sources[3].uids = <<UIDS[2]>>
    /\ last.ret[1].uids = UIDS
    /\ last.ret[1].id = 1

----------------------------------------------------------------------------
(* Copies, aggregation and lookups *)

\* C21: union with copy=True returns a new record and leaves self and all
\* others as they were; with copy=False it returns self, which then holds the
\* merge, and leaves all others as they were.
UnionCopyFrame ==
    (last.op = "union_copy") =>
        LET before == last.arg.sources
            after == last.found
            r == last.ret[1]
            merged == union(Head(before), Tail(before), last.arg.force)
        IN  /\ \A i \in 2..Len(before) : after[i] = before[i]
            /\ last.arg.copy =>
                  /\ r \notin DOMAIN before
                  /\ after[1] = before[1]
                  /\ after[r] = merged
            /\ ~last.arg.copy =>
                  /\ r = 1
                  /\ DOMAIN after = DOMAIN before
                  /\ after[1] = merged

\* a copying union whose result differs from self: self has no distance, one
\* of the others brings one
UnionCopyLeftSelfWitness ==
    /\ last.op = "union_copy" /\ last.arg.copy
    /\ Len(last.arg.sources) = 3
    /\ last.arg.sources[1].distance = None
    /\ last.found[last.ret[1]].distance = Some(10)
    /\ last.found[1].distance = None

\* C22: Activity( others=[...] ) holds the field values of the union without
\* force over the list in order, and its id is unset whatever ids the
\* elements carry.
InitFromOthersIsUnionWithoutId ==
    (last.op = "__init_from_others__" /\ ~last.arg.force) =>
        LET merged == union(Head(last.arg.sources), Tail(last.arg.sources), FALSE)
        IN  /\ \A f \in MergeFields \cup {"uids"} : last.ret[1][f] = merged[f]
            /\ last.ret[1].id = NoId

----------------------------------------------------------------------------
(* Aggregation of activities: add, and the construction from parts         *)

MaxParts == 3

\* the fields summed, and those of which the largest / smallest value is taken
SumFields == {"distance", "ascent", "descent", "calories"}
MaxFields == {"elevation_max", "speed_max", "heartrate_max"}
MinFields == {"elevation_min", "heartrate_min"}

\* the values of a list of optional values that are not None
RECURSIVE PresentValues(_)
PresentValues(values) ==
    IF values = <<>> THEN <<>>
    ELSE (IF Head(values) # None THEN <<Head(values)[1]>> ELSE <<>>) \o PresentValues(Tail(values))

\* sum( l )
RECURSIVE sum(_)
sum(l) == IF l = <<>> THEN 0 ELSE Head(l) + sum(Tail(l))

\* max( l ) if l else None, min( l ) if l else None
MaxPresent(values) ==
    LET l == PresentValues(values)
    IN  IF l = <<>> THEN None ELSE Some(Max(SeqToSet(l)))
MinPresent(values) ==
    LET l == PresentValues(values)
    IN  IF l = <<>> THEN None ELSE Some(Min(SeqToSet(l)))

\* s if (s := sum( v for v in values if v )) else None
SumTruthy(values) ==
    LET s == sum(SelectSeq(PresentValues(values), LAMBDA v : v # 0))
    IN  IF s # 0 THEN Some(s) ELSE None

\* the null-safe sum: the sum of the values there are, None when there is none
SumPresent(values) ==
    LET l == PresentValues(values)
    IN  IF l = <<>> THEN None ELSE Some(sum(l))

\* a faulty null-safe sum: the sum of no value is 0
SumPresentOrZero(values) == Some(sum(PresentValues(values)))

\* sum_times( values ): the sum of the durations there are, in seconds
sum_times(values) == Some(sum(PresentValues(values)))

\* the values of the field f of a list of activities, in order
FieldValues(activities, f) == [i \in 1..Len(activities) |-> activities[i][f]]

\* Activity( time=..., distance=..., ... ): an activity that starts at t, with
\* the measurements s and e (each may be missing, or be 0)
TIMEZONES == <<"Europe/Berlin", "UTC", "Asia/Tokyo", "America/Lima">>
Measured(t, s, e) ==
    [time |-> Some(10 * t), time_end |-> IF e = None THEN None ELSE Some(10 * t + 5),
     localtime |-> Some(10 * t + 1), localtime_end |-> IF e = None THEN None ELSE Some(10 * t + 6),
     timezone |-> TIMEZONES[t],
     duration |-> s, duration_moving |-> e,
     distance |-> s, ascent |-> e, descent |-> e, calories |-> s,
     elevation_max |-> e, elevation_min |-> e, speed_max |-> s,
     heartrate_max |-> e, heartrate_min |-> s]

\* Activity(): every field at its default
Unmeasured ==
    [f \in DOMAIN Measured(1, None, None) |-> IF f = "timezone" THEN TIMEZONES[1] ELSE None]

\* Activity.__init_from_parts__( other_parts, force )
__init_from_parts__(self, other_parts, force) ==
    [self EXCEPT
        !.time = other_parts[1].time,
        !.localtime = other_parts[1].localtime,
        !.time_end = other_parts[Len(other_parts)].time_end,
        !.localtime_end = other_parts[Len(other_parts)].localtime_end,
        !.timezone = other_parts[1].timezone,
        !.duration = sum_times(FieldValues(other_parts, "duration")),
        !.duration_moving = sum_times(FieldValues(other_parts, "duration_moving")),
        !.distance = SumTruthy(FieldValues(other_parts, "distance")),
        !.ascent = SumTruthy(FieldValues(other_parts, "ascent")),
        !.descent = SumTruthy(FieldValues(other_parts, "descent")),
        !.elevation_max = MaxPresent(FieldValues(other_parts, "elevation_max")),
        !.elevation_min = MinPresent(FieldValues(other_parts, "elevation_min")),
        !.speed_max = MaxPresent(FieldValues(other_parts, "speed_max")),
        !.heartrate_max = MaxPresent(FieldValues(other_parts, "heartrate_max")),
        !.heartrate_min = MinPresent(FieldValues(other_parts, "heartrate_min")),
        !.calories = SumTruthy(FieldValues(other_parts, "calories"))]

\* a faulty add: a sum over no value is 0
add_fabricates_zero(self, others) ==
    LET sources == <<self>> \o others
    IN  [self EXCEPT
            !.time = MinPresent(FieldValues(sources, "time")),
            !.time_end = None,
            !.distance = SumPresentOrZero(FieldValues(sources, "distance")),
            !.ascent = SumPresentOrZero(FieldValues(sources, "ascent")),
            !.descent = SumPresentOrZero(FieldValues(sources, "descent")),
            !.calories = SumPresentOrZero(FieldValues(sources, "calories")),
            !.elevation_max = MaxPresent(FieldValues(sources, "elevation_max")),
            !.duration = sum_times(FieldValues(sources, "duration")),
            !.duration_moving = sum_times(FieldValues(sources, "duration_moving")),
            !.heartrate_max = MaxPresent(FieldValues(sources, "heartrate_max")),
            !.heartrate_min = MinPresent(FieldValues(sources, "heartrate_min"))]

\* a faulty add: the start and the end are left as self has them
add_keeps_times(self, others) ==
    LET sources == <<self>> \o others
    IN  [self EXCEPT
            !.distance = SumPresent(FieldValues(sources, "distance")),
            !.ascent = SumPresent(FieldValues(sources, "ascent")),
            !.descent = SumPresent(FieldValues(sources, "descent")),
            !.calories = SumPresent(FieldValues(sources, "calories")),
            !.elevation_max = MaxPresent(FieldValues(sources, "elevation_max")),
            !.duration = sum_times(FieldValues(sources, "duration")),
            !.duration_moving = sum_times(FieldValues(sources, "duration_moving")),
            !.heartrate_max = MaxPresent(FieldValues(sources, "heartrate_max")),
            !.heartrate_min = MinPresent(FieldValues(sources, "heartrate_min"))]

\* Activity.add( others ): the aggregated record
add(self, others) ==
    LET sources == <<self>> \o others
    IN  [self EXCEPT
            !.time = MinPresent(FieldValues(sources, "time")),
            !.time_end = None,
            !.distance = SumPresent(FieldValues(sources, "distance")),
            !.ascent = SumPresent(FieldValues(sources, "ascent")),
            !.descent = SumPresent(FieldValues(sources, "descent")),
            !.calories = SumPresent(FieldValues(sources, "calories")),
            !.elevation_max = MaxPresent(FieldValues(sources, "elevation_max")),
            !.duration = sum_times(FieldValues(sources, "duration")),
            !.duration_moving = sum_times(FieldValues(sources, "duration_moving")),
            !.heartrate_max = MaxPresent(FieldValues(sources, "heartrate_max")),
            !.heartrate_min = MinPresent(FieldValues(sources, "heartrate_min"))]

\* the lists of activities handed to an aggregation: n activities in the
\* order of their start or in the reverse order
MeasuredS == {None, Some(0), Some(10), Some(20)}
MeasuredE == {None, Some(100)}
RECURSIVE MeasuredListsOf(_, _)
MeasuredListsOf(n, ascending) ==
    IF n = 0 THEN {<<>>}
    ELSE {IF ascending THEN Append(l, Measured(n, s, e)) ELSE <<Measured(n, s, e)>> \o l :
             l \in MeasuredListsOf(n - 1, ascending), s \in MeasuredS, e \in MeasuredE}
MeasuredLists == UNION {MeasuredListsOf(n, ascending) : n \in 1..MaxParts, ascending \in BOOLEAN}

\* an aggregation about to be made
InitAggregate ==
    /\ _activities = EmptyObject
    /\ _resources = EmptyObject
    /\ _read_only = FALSE
    /\ _db_path = FALSE
    /\ backup_path = EmptyObject
    /\ heap = NoObjects
    /\ path_exists = FALSE
    /\ osfs = EmptyFs
    /\ memfs = SeededFs(0)
    /\ overlay = EmptyFs
    /\ clock = 0
    /\ alive = TRUE
    /\ \E sources \in MeasuredLists :
          last = [Call("__init__") EXCEPT !.arg = [sources |-> sources]]
    /\ ghost = History(SeededFs(0), FALSE, EmptyFs, NoError)
    /\ calls = 0

\* self.add( others, copy=True )
call_add ==
    /\ last.op = "__init__"
    /\ last' = [op |-> "add", arg |-> last.arg,
                ret |-> Some(add(Head(last.arg.sources), Tail(last.arg.sources))),
                found |-> None, pre |-> None]
    /\ UNCHANGED <<colVars, fsVars>>

\* Activity( other_parts=parts )
call_init_from_parts ==
    /\ last.op = "__init__"
    /\ last.arg.sources # <<>>
    /\ last' = [op |-> "__init_from_parts__", arg |-> last.arg,
                ret |-> Some(__init_from_parts__(Unmeasured, last.arg.sources, FALSE)),
                found |-> None, pre |-> None]
    /\ UNCHANGED <<colVars, fsVars>>

NextAggregate ==
    \/ call_add /\ UNCHANGED calls
    \/ call_init_from_parts /\ UNCHANGED calls

SpecAggregate == InitAggregate /\ [][NextAggregate]_vars

\* the sources of the last aggregation that have a value of the field f
Having(f) == {i \in 1..Len(last.arg.sources) : last.arg.sources[i][f] # None}

\* the sum of the values of the field f of the sources in S
RECURSIVE TotalOf(_, _)
TotalOf(f, S) ==
    IF S = {} THEN 0
    ELSE LET i == CHOOSE x \in S : TRUE
         IN  last.arg.sources[i][f][1] + TotalOf(f, S \ {i})

\* C23: add() gives distance, ascent, descent and calories as the sum over the
\* inputs that have a value, and None, never 0, when no input has one; the
\* durations of no input sum to a duration of zero.
AddSumsValuesPresent ==
    (last.op = "add") =>
        /\ \A f \in SumFields :
              last.ret[1][f] = (IF Having(f) = {} THEN None ELSE Some(TotalOf(f, Having(f))))
        /\ \A f \in {"duration", "duration_moving"} :
              last.ret[1][f] = Some(TotalOf(f, Having(f)))

\* distances 10, 20 and None add up to 30, with no ascent and no moving time
\* at all
AddSkippedNoneWitness ==
    /\ last.op = "add"
    /\ FieldValues(last.arg.sources, "distance") = <<Some(10), Some(20), None>>
    /\ last.ret[1].distance = Some(30)
    /\ Having("ascent") = {} /\ last.ret[1].ascent = None
    /\ last.ret[1].duration_moving = Some(0)

PartsAggregated ==
    (last.op = "__init_from_parts__") =>
        LET parts == last.arg.sources
            r == last.ret[1]
            Extreme(f, Before(_, _)) ==
                IF Having(f) = {} THEN r[f] = None
                ELSE /\ r[f] # None
                     /\ \E i \in Having(f) : parts[i][f] = r[f]
                     /\ \A i \in Having(f) : Before(r[f][1], parts[i][f][1])
        IN  /\ \A f \in {"time", "localtime", "timezone"} : r[f] = parts[1][f]
            /\ \A f \in {"time_end", "localtime_end"} : r[f] = parts[Len(parts)][f]
            /\ \A f \in SumFields :
                  r[f] = (IF Having(f) = {} THEN None ELSE Some(TotalOf(f, Having(f))))
            /\ \A f \in MaxFields : Extreme(f, LAMBDA x, y : x >= y)
            /\ \A f \in MinFields : Extreme(f, LAMBDA x, y : x <= y)

----------------------------------------------------------------------------
(* The uids of activities as they are constructed, set and merged          *)

MaxUids == 2

\* the lists of uids a caller may hand over: in any order, with repetitions
RECURSIVE UidListsOf(_)
UidListsOf(n) ==
    IF n = 0 THEN {<<>>}
    ELSE {Append(l, u) : l \in UidListsOf(n - 1), u \in SeqToSet(UIDS)}
AnyUidLists == UNION {UidListsOf(n) : n \in 1..MaxUids}

\* Activity( uids=uids ): the dataclass stores the list it is given
construct_activity(uids) ==
    /\ alive
    /\ last' = [op |-> "Activity", arg |-> uids, ret |-> Some(Activity(uids, None, None)),
                found |-> None, pre |-> Collections]
    /\ UNCHANGED <<colVars, fsVars>>

\* a.set_uids( uids ) on the activity constructed last
set_uids(uids) ==
    /\ alive
    /\ last.op \in {"Activity", "set_uids"}
    /\ last' = [op |-> "set_uids", arg |-> uids,
                ret |-> Some([last.ret[1] EXCEPT !.uids = SortUids(SeqToSet(uids))]),
                found |-> None, pre |-> Collections]
    /\ UNCHANGED <<colVars, fsVars>>

\* db.upsert_activity( a ) with the activity constructed last
upsert_constructed ==
    /\ last.op \in {"Activity", "set_uids"}
    /\ upsert_activity(last.ret[1])

NextUids ==
    \/ \E uids \in AnyUidLists : construct_activity(uids) /\ UNCHANGED calls
    \/ \E uids \in AnyUidLists : set_uids(uids) /\ UNCHANGED calls
    \/ upsert_constructed /\ UNCHANGED calls
    \/ \E id \in DOMAIN _activities : remove_activity(id) /\ UNCHANGED calls

SpecUids == InitEphemeral /\ [][NextUids]_vars

\* a list of uids in sorted order that holds no uid twice
SortedAndUnique(uids) ==
    \A i, j \in 1..Len(uids) : i < j => UidIndex(uids[i]) < UidIndex(uids[j])

\* C26: whatever activities are constructed, given uids with set_uids, merged
\* and upserted, the uids of every activity, stored or just constructed, are
\* in sorted order and hold no uid twice.
UidsSortedAndUnique ==
    /\ \A id \in DOMAIN _activities : SortedAndUnique(_activities[id].uids)
    /\ last.op \in {"Activity", "set_uids"} => SortedAndUnique(last.ret[1].uids)

----------------------------------------------------------------------------
(* Lookups *)

\* the characters of the strings the lookups compare
Text(s) ==
    CASE s = "polar" -> <<"p", "o", "l", "a", "r">>
      [] s = "polarflow" -> <<"p", "o", "l", "a", "r", "f", "l", "o", "w">>
      [] s = "strava" -> <<"s", "t", "r", "a", "v", "a">>
      [] s = "polar:1" -> <<"p", "o", "l", "a", "r", ":", "1">>
      [] s = "polarflow:1" -> <<"p", "o", "l", "a", "r", "f", "l", "o", "w", ":", "1">>
      [] s = "strava:1" -> <<"s", "t", "r", "a", "v", "a", ":", "1">>

\* s.startswith( prefix )
startswith(s, prefix) ==
    /\ Len(Text(prefix)) <= Len(Text(s))
    /\ SubSeq(Text(s), 1, Len(Text(prefix))) = Text(prefix)

\* the classifier segment of a uid: the characters before the first ':'
ClassifierOf(uid) ==
    LET t == Text(uid)
        colon == CHOOSE i \in 1..Len(t) : t[i] = ":" /\ \A j \in 1..(i - 1) : t[j] # ":"
    IN  SubSeq(t, 1, colon - 1)

CLASSIFIERS == {"polar", "polarflow", "strava"}

\* an activity with a start, and a resource with a type
Timed(activity, t) ==
    [f \in DOMAIN activity \cup {"time"} |-> IF f = "time" THEN Some(t) ELSE activity[f]]
Typed(resource, type) ==
    [f \in DOMAIN resource \cup {"type"} |-> IF f = "type" THEN type ELSE resource[f]]

\* the activities and resources the db of the lookups is filled with
LookupActivities ==
    {Timed(Activity(<<"polar:1">>, None, None), 20),
     Timed(Activity(<<"polarflow:1">>, None, None), 10),
     Timed(Activity(<<"strava:1">>, None, None), 30),
     Timed(Activity(<<"polar:1", "strava:1">>, None, None), 15)}
GPX_TYPE == "application/gpx+xml"
SUMMARY_TYPE == "application/vnd.polar+json"
LookupResources ==
    {Typed(Resource("polar:1", "rec.gpx", "c1"), GPX_TYPE),
     Typed(Resource("polar:1", "sum.json", "c1"), SUMMARY_TYPE)}
LookupUids == {"polar:1", "polarflow:1", "strava:1"}

\* Registry.resource_types.get( type ).summary
IsSummaryType(type) == type = SUMMARY_TYPE

\* next( iter( matches ), None ): one of the matches, None when there is none
NextOrNone(matches) == IF matches = {} THEN {None} ELSE {Some(k) : k \in matches}

\* find_by_classifier( classifier ): the ids of the activities it returns
find_by_classifier(activities, classifier) ==
    {k \in DOMAIN activities :
        \E i \in 1..Len(activities[k].uids) : startswith(activities[k].uids[i], classifier)}

\* find_resources( uid ), find_all_resources( uids ), find_summaries( uid )
find_resources(resources, uid) == {k \in DOMAIN resources : resources[k].uid = uid}
find_all_resources(resources, uids) == {k \in DOMAIN resources : resources[k].uid \in uids}
find_summaries(resources, uid) ==
    {k \in find_resources(resources, uid) : IsSummaryType(resources[k].type)}

\* a lookup that returned ret or raised
Lookup(op, arg, ret, raised) ==
    /\ alive
    /\ last' = [op |-> op, arg |-> arg, ret |-> ret, found |-> None, pre |-> None]
    /\ ghost' = [ghost EXCEPT !.raised = raised]
    /\ UNCHANGED <<colVars, _read_only, _db_path, backup_path, path_exists, osfs, memfs, overlay, clock, alive, heap>>

call_find_by_classifier(classifier) ==
    Lookup("find_by_classifier", classifier, Some(find_by_classifier(_activities, classifier)), NoError)

get_by_id(id) ==
    Lookup("get_by_id", {id}, IF id \in DOMAIN _activities THEN Some(id) ELSE None, NoError)

get_by_uid(uid) ==
    \E ret \in NextOrNone(get_activity_by_uids(_activities, <<uid>>)) :
        Lookup("get_by_uid", {uid}, ret, NoError)

call_get_activity_by_uids(uids) ==
    \E ret \in NextOrNone(get_activity_by_uids(_activities, uids)) :
        Lookup("get_activity_by_uids", SeqToSet(uids), ret, NoError)

get_resource(id) ==
    Lookup("get_resource", {id}, IF id \in DOMAIN _resources THEN Some(id) ELSE None, NoError)

call_get_resource_by_uid_path(uid, path) ==
    \E ret \in NextOrNone(get_resource_by_uid_path(_resources, uid, path)) :
        Lookup("get_resource_by_uid_path", {uid, path}, ret, NoError)

get_resource_of_type(uids, type) ==
    \E ret \in NextOrNone({k \in find_all_resources(_resources, uids) : _resources[k].type = type}) :
        Lookup("get_resource_of_type", uids \cup {type}, ret, NoError)

get_summary(uid) ==
    \E ret \in NextOrNone(find_summaries(_resources, uid)) :
        Lookup("get_summary", {uid}, ret, NoError)

\* find_first( classifier ) and find_last( classifier ): min( ... ) and
\* max( ... ) by start, which raise ValueError on an empty list; sign is 1
\* for min and -1 for max
find_extreme(op, classifier, sign) ==
    LET activities == IF classifier # None
                      THEN find_by_classifier(_activities, classifier[1])
                      ELSE DOMAIN _activities
    IN  IF activities = {}
        THEN Lookup(op, classifier, None, "ValueError")
        ELSE \E k \in activities :
                /\ \A j \in activities : sign * _activities[k].time[1] <= sign * _activities[j].time[1]
                /\ Lookup(op, classifier, Some(k), NoError)
find_first(classifier) == find_extreme("find_first", classifier, 1)
find_last(classifier) == find_extreme("find_last", classifier, -1)

NextLookups ==
    \/ \E a \in LookupActivities : insert_activity(a) /\ UNCHANGED calls
    \/ \E id \in DOMAIN _activities : remove_activity(id) /\ UNCHANGED calls
    \/ \E r \in LookupResources : insert_resource(r) /\ UNCHANGED calls
    \/ \E c \in CLASSIFIERS : call_find_by_classifier(c) /\ UNCHANGED calls
    \/ \E id \in 1..MaxActivities : get_by_id(id) /\ UNCHANGED calls
    \/ \E uid \in LookupUids : get_by_uid(uid) /\ UNCHANGED calls
    \/ \E a \in LookupActivities : call_get_activity_by_uids(a.uids) /\ UNCHANGED calls
    \/ \E id \in 1..MaxResources : get_resource(id) /\ UNCHANGED calls
    \/ \E uid \in LookupUids, path \in Paths : call_get_resource_by_uid_path(uid, path) /\ UNCHANGED calls
    \/ \E uid \in LookupUids, type \in {GPX_TYPE, SUMMARY_TYPE} :
          get_resource_of_type({uid}, type) /\ UNCHANGED calls
    \/ \E uid \in LookupUids : get_summary(uid) /\ UNCHANGED calls
    \/ \E c \in {None} \cup {Some(x) : x \in CLASSIFIERS} : find_first(c) /\ UNCHANGED calls
    \/ \E c \in {None} \cup {Some(x) : x \in CLASSIFIERS} : find_last(c) /\ UNCHANGED calls

SpecLookups == InitEphemeral /\ [][NextLookups]_vars

\* C27: find_by_classifier( c ) returns exactly the stored activities that
\* have a uid whose classifier segment is c; an activity whose uids carry only
\* a classifier that begins with the characters of c is not returned.
FindByClassifierMatchesSegment ==
    (last.op = "find_by_classifier") =>
        last.ret[1] = {k \in DOMAIN _activities :
                          \E i \in 1..Len(_activities[k].uids) :
                              ClassifierOf(_activities[k].uids[i]) = Text(last.arg)}

LookupOps ==
    {"get_by_id", "get_by_uid", "get_activity_by_uids", "get_resource", "get_resource_by_uid_path",
     "get_resource_of_type", "get_summary", "find_first", "find_last"}

\* C28: no lookup raises; a lookup that matches nothing, the lookups in an
\* empty db and find_first / find_last with a classifier no activity has
\* included, returns the absent result.
LookupsNeverRaise ==
    (last.op \in LookupOps) => ghost.raised = NoError

\* a db that is filled with activities and resources and emptied again
NextRemove ==
    \/ \E a \in LookupActivities : insert_activity(a) /\ UNCHANGED calls
    \/ \E r \in LookupResources : insert_resource(r) /\ UNCHANGED calls
    \/ \E r \in LookupResources : upsert_resource(r) /\ UNCHANGED calls
    \/ \E id \in DOMAIN _activities : remove_activity(id) /\ UNCHANGED calls

SpecRemove == InitEphemeral /\ [][NextRemove]_vars

\* C29: remove_activity( a ) removes the activity stored under a.id and no
\* other: the activities that remain keep their ids and values, and the
\* resources, those of the removed activity included, stay as they were.
RemoveActivityFrame ==
    (last.op = "remove_activity") =>
        /\ DOMAIN _activities = DOMAIN last.pre.activities \ {last.arg.id}
        /\ \A k \in DOMAIN _activities : _activities[k] = last.pre.activities[k]
        /\ _resources = last.pre.resources

\* the activity polar:1 is removed while its resources and another activity
\* are stored
RemovedActivityKeptResourcesWitness ==
    /\ last.op = "remove_activity"
    /\ last.arg.uids = <<"polar:1">>
    /\ last.arg.id \in DOMAIN last.pre.activities
    /\ _activities # EmptyObject
    /\ \E k \in DOMAIN _resources : _resources[k].uid = "polar:1"

----------------------------------------------------------------------------
(* Backup and restore of the db directory *)

MaxStamp == 2

\* the message restore_db prints when it finds no backup
NO_BACKUPS_FOUND == "no backups found"

\* copytree( source, target, ignore=..., dirs_exist_ok=True ): the files of
\* target afterwards, the db files of source copied over it
copytree(source, target) ==
    [f \in DOMAIN target \cup (DOMAIN source \cap SeqToSet(DB_FILES)) |->
        IF f \in DOMAIN source \cap SeqToSet(DB_FILES) THEN source[f] ELSE target[f]]

\* backup_db( ctx ) at the time now, the name of the new backup; copytree
\* raises when the db directory is missing or the backup exists already
backup_db(now) ==
    /\ alive /\ _db_path
    /\ \A name \in DOMAIN backup_path : name <= now
    /\ LET raised == IF ~path_exists THEN "FileNotFoundError"
                     ELSE IF now \in DOMAIN backup_path THEN "FileExistsError"
                     ELSE NoError
       IN  /\ backup_path' = IF raised = NoError
                             THEN DictSet(backup_path, now, copytree(osfs, EmptyFs))
                             ELSE backup_path
           /\ ghost' = [ghost EXCEPT !.raised = raised]
           /\ last' = [op |-> "backup_db", arg |-> {now}, ret |-> None,
                       found |-> IF raised = NoError THEN Some("created database backup") ELSE None,
                       pre |-> [backup_path |-> backup_path, exists |-> path_exists, files |-> osfs]]
    /\ UNCHANGED <<colVars, _read_only, _db_path, path_exists, osfs, memfs, overlay, clock, alive, heap>>

\* strftime( '%Y%m%d_%H%M%S' ): the digits of a timestamp, zero-padded to a
\* fixed width
strftime(now) == <<now \div 10, now % 10>>

\* a < b for two names, as sorted( ..., key=lambda p: p.name ) compares them
RECURSIVE name_less(_, _)
name_less(a, b) ==
    IF b = <<>> THEN FALSE
    ELSE IF a = <<>> THEN TRUE
    ELSE IF Head(a) # Head(b) THEN Head(a) < Head(b)
    ELSE name_less(Tail(a), Tail(b))

\* sorted( glob, key=name )[-1] and sorted( glob, key=name )[0]
last_backup(names) == CHOOSE n \in names : \A m \in names \ {n} : name_less(strftime(m), strftime(n))
first_backup(names) == CHOOSE n \in names : \A m \in names \ {n} : name_less(strftime(n), strftime(m))

\* a copytree that leaves the files the target has already
copytree_missing_only(source, target) ==
    [f \in DOMAIN target \cup (DOMAIN source \cap SeqToSet(DB_FILES)) |->
        IF f \in DOMAIN target THEN target[f] ELSE source[f]]

\* the body of restore_db( ctx ) with ctx.force and the answer given to
\* confirm( ... ), restoring from the backup named source with the files
\* restored; sorted( ... )[-1] raises IndexError on an empty list, which is not
\* a RuntimeError and passes the except clause
Restore(force, answer, source, restored) ==
    /\ alive /\ _db_path
    /\ LET names == DOMAIN backup_path
           raised == IF names = {} THEN "IndexError" ELSE NoError
           restores == names # {} /\ (force \/ answer)
       IN  /\ osfs' = IF restores THEN restored ELSE osfs
           /\ path_exists' = (path_exists \/ restores)
           /\ ghost' = [ghost EXCEPT !.raised = raised,
                                     !.restored = IF restores
                                                  THEN Some([files |-> restored, saved |-> ghost.saved,
                                                             changed |-> restored # osfs])
                                                  ELSE @]
           /\ last' = [op |-> "restore_db", arg |-> [force |-> force, answer |-> answer],
                       ret |-> IF restores THEN Some(source) ELSE None, found |-> None,
                       pre |-> [backup_path |-> backup_path, exists |-> path_exists, files |-> osfs]]
    /\ UNCHANGED <<colVars, _read_only, _db_path, backup_path, memfs, overlay, clock, alive, heap>>

\* a faulty restore_db: the files the db directory has are not overwritten
restore_db_missing_only(force, answer) ==
    LET source == IF backup_path = EmptyObject THEN 0 ELSE last_backup(DOMAIN backup_path)
    IN  Restore(force, answer, source,
                IF backup_path = EmptyObject THEN osfs ELSE copytree_missing_only(backup_path[source], osfs))

\* a faulty restore_db: the first backup of the sorted list is restored
restore_db_first(force, answer) ==
    LET source == IF backup_path = EmptyObject THEN 0 ELSE first_backup(DOMAIN backup_path)
    IN  Restore(force, answer, source,
                IF backup_path = EmptyObject THEN osfs ELSE copytree(backup_path[source], osfs))

restore_db(force, answer) ==
    LET source == IF backup_path = EmptyObject THEN 0 ELSE last_backup(DOMAIN backup_path)
    IN  Restore(force, answer, source,
                IF backup_path = EmptyObject THEN osfs ELSE copytree(backup_path[source], osfs))

NextBackup ==
    \/ Called /\ insert_activity(StoreActivity)
    \/ Called /\ commit(TRUE)
    \/ Called /\ save
    \/ Called /\ \E now \in 1..MaxStamp : backup_db(now)
    \/ Called /\ \E force, answer \in BOOLEAN : restore_db(force, answer)
    \/ Called /\ close

SpecBackup == InitStore /\ [][NextBackup]_vars

\* C30: restore_db with no backup in the backup directory does not raise: it
\* reports on the console that no backups were found and leaves the db
\* directory as it is.
RestoreWithoutBackupReports ==
    (last.op = "restore_db" /\ last.pre.backup_path = EmptyObject) =>
        /\ ghost.raised = NoError
        /\ last.found = Some(NO_BACKUPS_FOUND)
        /\ path_exists = last.pre.exists
        /\ osfs = last.pre.files

\* the backup restore_db is to take: none has a name that sorts after its name
NewestBackup(backups) ==
    CHOOSE n \in DOMAIN backups : \A m \in DOMAIN backups : ~name_less(strftime(n), strftime(m))

\* C31: after backup_db, a mutation of the db with commit() and save() and a
\* forced restore_db, every db file of the backup taken before the mutation
\* is in the db directory with the content it has in the backup.
BackupRestoreRoundTrip ==
    (last.op = "restore_db" /\ last.arg.force /\ last.pre.backup_path # EmptyObject) =>
        LET backup == last.pre.backup_path[NewestBackup(last.pre.backup_path)]
        IN  /\ path_exists
            /\ \A f \in DOMAIN backup : f \in DOMAIN osfs /\ osfs[f].content = backup[f].content

\* a forced restore after an activity was inserted, committed and saved: the
\* activities file on disk had changed since the backup and is as in the
\* backup again
RestoredAfterMutationWitness ==
    /\ last.op = "restore_db" /\ last.arg.force
    /\ last.pre.backup_path # EmptyObject
    /\ LET backup == last.pre.backup_path[NewestBackup(last.pre.backup_path)]
       IN  /\ DOMAIN backup = SeqToSet(DB_FILES)
           /\ last.pre.files[ACTIVITIES_NAME].content # backup[ACTIVITIES_NAME].content
           /\ osfs[ACTIVITIES_NAME].content = backup[ACTIVITIES_NAME].content
    /\ ghost.saved

\* C32: restore_db restores from the backup whose name sorts last, and
\* overwrites the db directory only when force is set or the confirmation is
\* answered yes; when it is declined the db directory is unchanged.
RestoreTakesLastBackupWhenConfirmed ==
    (last.op = "restore_db" /\ last.pre.backup_path # EmptyObject) =>
        IF last.arg.force \/ last.arg.answer
        THEN LET backup == last.pre.backup_path[NewestBackup(last.pre.backup_path)]
             IN  \A f \in DOMAIN backup : f \in DOMAIN osfs /\ osfs[f] = backup[f]
        ELSE osfs = last.pre.files /\ path_exists = last.pre.exists

\* a confirmed restore, not forced, with two backups of different content:
\* the db directory holds the activities of the later one
RestoredLastOfTwoWitness ==
    /\ last.op = "restore_db" /\ ~last.arg.force /\ last.arg.answer
    /\ Cardinality(DOMAIN last.pre.backup_path) = 2
    /\ \E n, m \in DOMAIN last.pre.backup_path :
          /\ n < m
          /\ last.pre.backup_path[n][ACTIVITIES_NAME].content # last.pre.backup_path[m][ACTIVITIES_NAME].content
          /\ osfs[ACTIVITIES_NAME].content = last.pre.backup_path[m][ACTIVITIES_NAME].content

\* C33: backup_db creates one new directory under the backup root that holds
\* copies of the db files of the db directory and nothing else, leaves the db
\* directory and the earlier backups unchanged, and succeeds when it is called
\* twice in a row.
BackupCreatesNewDirectory ==
    (last.op = "backup_db" /\ last.pre.exists) =>
        /\ ghost.raised = NoError
        /\ \E now \in DOMAIN backup_path \ DOMAIN last.pre.backup_path :
              /\ DOMAIN backup_path = DOMAIN last.pre.backup_path \cup {now}
              /\ DOMAIN backup_path[now] = DOMAIN last.pre.files \cap SeqToSet(DB_FILES)
              /\ \A f \in DOMAIN backup_path[now] : backup_path[now][f].content = last.pre.files[f].content
        /\ \A n \in DOMAIN last.pre.backup_path : backup_path[n] = last.pre.backup_path[n]
        /\ osfs = last.pre.files /\ path_exists = last.pre.exists

\* C37: a restore is not undone by the db that was open during it: after
\* backup_db, a mutation with commit() and save(), and restore_db, a following
\* save() or close() of that db leaves the restored files on disk with the
\* content they have in the backup.
RestoreSurvivesSaveOfOpenDb ==
    (/\ last.op \in {"save", "close"}
     /\ ghost.restored # None
     /\ ghost.restored[1].saved /\ ghost.restored[1].changed) =>
        \A f \in DOMAIN ghost.restored[1].files :
            f \in DOMAIN osfs /\ osfs[f].content = ghost.restored[1].files[f].content

\* C38: save() is idempotent: on a read-write db a save() that directly
\* follows a save(), with no commit() in between, copies no file and leaves
\* every file of the underlay as it is.
SecondSaveCopiesNothing ==
    [][(/\ last.op = "save" /\ last.ret = None
        /\ last'.op = "save"
        /\ _db_path /\ ~_read_only) => osfs' = osfs]_vars

\* a save() that found the committed activities on disk already, written
\* there by the save() before it, and copied nothing
SecondSaveWitness ==
    /\ last.op = "save" /\ last.ret = None
    /\ _db_path /\ ~_read_only
    /\ ghost.committed # None /\ ghost.committed[1].activities # EmptyObject
    /\ last.pre.disk.files = osfs
    /\ osfs[ACTIVITIES_NAME].content = overlay[ACTIVITIES_NAME].content
    /\ osfs[ACTIVITIES_NAME].modified > overlay[ACTIVITIES_NAME].modified

\* C34: opening a read-write db on a path seeds each db file the directory
\* lacks with its default payload and leaves the files that exist as they
\* are; the overlay then holds the same content as the underlay for all five
\* files, and a save() before any commit() changes nothing on disk.
ReadWriteOpenSeedsMissingFiles ==
    (_db_path /\ ~_read_only /\ alive) =>
        /\ last.op \in {"__init__", "reopen"} =>
              \A f \in SeqToSet(DB_FILES) :
                  /\ f \in DOMAIN osfs /\ f \in DOMAIN overlay
                  /\ osfs[f].content = (IF f \in DOMAIN ghost.disk0.files
                                        THEN ghost.disk0.files[f].content
                                        ELSE DefaultContent(f))
                  /\ overlay[f].content = osfs[f].content
        /\ (last.op = "save" /\ ghost.committed = None) => osfs = last.pre.disk.files

\* a read-write db opened on a directory that holds activities.json only: the
\* four other files were seeded
SeededMissingFilesWitness ==
    /\ last.op = "__init__" /\ _db_path /\ ~_read_only /\ alive
    /\ ghost.disk0.exists /\ ghost.disk0.files = PartialFs
    /\ DOMAIN osfs = SeqToSet(DB_FILES)
    /\ osfs[SCHEMA_NAME].content = DefaultContent(SCHEMA_NAME)

----------------------------------------------------------------------------
(* The index over a loaded db *)

MaxIndexed == 3

\* d.values() of a collection: the records in the order of their ids
RECURSIVE ValuesOf(_, _)
ValuesOf(d, keys) ==
    IF keys = {} THEN <<>>
    ELSE LET k == Min(keys) IN <<d[k]>> \o ValuesOf(d, keys \ {k})
values(d) == ValuesOf(d, DOMAIN d)

\* itertools.groupby( resources, key=lambda r: r.uid ): the runs of adjacent
\* resources with the same uid, as pairs of the uid and the run
RECURSIVE groupby(_)
groupby(resources) ==
    IF resources = <<>> THEN <<>>
    ELSE LET rest == groupby(Tail(resources))
             r == Head(resources)
         IN  IF rest # <<>> /\ Head(rest)[1] = r.uid
             THEN <<<<r.uid, <<r>> \o Head(rest)[2]>>>> \o Tail(rest)
             ELSE <<<<r.uid, <<r>>>>>> \o rest

\* { key: value for key, value in pairs }: a later pair replaces the value of
\* an equal key
RECURSIVE dict(_)
dict(pairs) ==
    IF pairs = <<>> THEN EmptyObject
    ELSE LET p == pairs[Len(pairs)]
             before == dict(SubSeq(pairs, 1, Len(pairs) - 1))
         IN  [k \in DOMAIN before \cup {p[1]} |-> IF k = p[1] THEN p[2] ELSE before[k]]

\* the keys of the dict of pairs in the order of their first insertion
RECURSIVE KeysInOrder(_, _)
KeysInOrder(pairs, seen) ==
    IF pairs = <<>> THEN <<>>
    ELSE IF Head(pairs)[1] \in seen THEN KeysInOrder(Tail(pairs), seen)
    ELSE <<Head(pairs)[1]>> \o KeysInOrder(Tail(pairs), seen \cup {Head(pairs)[1]})

\* the pairs ( uid, a ) for a in activities for uid in a.uids
RECURSIVE UidActivityPairs(_)
UidActivityPairs(activities) ==
    IF activities = <<>> THEN <<>>
    ELSE [i \in 1..Len(Head(activities).uids) |-> <<Head(activities).uids[i], Head(activities).id>>]
         \o UidActivityPairs(Tail(activities))

\* _relate_activities: 'activity.__resources__ = UID_TO_RESOURCE.get( uid, [] )'
\* for each uid of UID_TO_ACTIVITY in turn, related being id -> __resources__
RECURSIVE relate_activities(_, _, _, _)
relate_activities(uids, UID_TO_ACTIVITY, UID_TO_RESOURCE, related) ==
    IF uids = <<>> THEN related
    ELSE LET uid == Head(uids)
             found == IF uid \in DOMAIN UID_TO_RESOURCE THEN UID_TO_RESOURCE[uid] ELSE <<>>
         IN  relate_activities(Tail(uids), UID_TO_ACTIVITY, UID_TO_RESOURCE,
                               [related EXCEPT ![UID_TO_ACTIVITY[uid]] = found])

\* ActivityDbIndex( activity_map, resource_map ): the three class attributes
\* and the __resources__ of the activities; UID_PATH_TO_RESOURCE is built with
\* a set comprehension and holds the pairs without any resource
ActivityDbIndex(activity_map, resource_map) ==
    LET pairs == UidActivityPairs(values(activity_map))
        UID_TO_ACTIVITY == dict(pairs)
        UID_TO_RESOURCE == dict(groupby(values(resource_map)))
    IN  [UID_TO_ACTIVITY |-> UID_TO_ACTIVITY,
         UID_TO_RESOURCE |-> UID_TO_RESOURCE,
         UID_PATH_TO_RESOURCE |->
            [keys |-> {<<resource_map[k].uid, resource_map[k].path>> : k \in DOMAIN resource_map},
             items |-> EmptyObject],
         __resources__ |-> relate_activities(KeysInOrder(pairs, {}), UID_TO_ACTIVITY, UID_TO_RESOURCE,
                                             [k \in DOMAIN activity_map |-> <<>>])]

\* the collections a db is loaded with: at most MaxIndexed resources and
\* MaxActivities activities under the ids 1, 2, ...
RECURSIVE LoadedOf(_, _)
LoadedOf(n, records) ==
    IF n = 0 THEN {EmptyObject}
    ELSE {DictSet(d, n, [r EXCEPT !.id = n]) : d \in LoadedOf(n - 1, records), r \in records}
IndexedResources == {Resource(uid, path, "c1") : uid \in SeqToSet(UIDS), path \in Paths}
IndexedActivities == {Activity(uids, None, None) : uids \in UidLists}

\* ActivityDb( path, enable_index=True ) after _load_db
InitIndex ==
    /\ \E n \in 0..MaxActivities : _activities \in LoadedOf(n, IndexedActivities)
    /\ \E n \in 0..MaxIndexed : _resources \in LoadedOf(n, IndexedResources)
    /\ _read_only = FALSE
    /\ _db_path = FALSE
    /\ backup_path = EmptyObject
    /\ heap = NoObjects
    /\ path_exists = FALSE
    /\ osfs = EmptyFs
    /\ memfs = SeededFs(0)
    /\ overlay = EmptyFs
    /\ clock = 0
    /\ alive = TRUE
    /\ last = Call("_load_db")
    /\ ghost = History(SeededFs(0), FALSE, EmptyFs, NoError)
    /\ calls = 0

\* self._index = ActivityDbIndex( self.activity_map, self.resource_map )
build_index ==
    /\ last.op = "_load_db"
    /\ last' = [op |-> "ActivityDbIndex", arg |-> None,
                ret |-> Some(ActivityDbIndex(_activities, _resources)),
                found |-> None, pre |-> None]
    /\ UNCHANGED <<colVars, fsVars>>

NextIndex == build_index /\ UNCHANGED calls

SpecIndex == InitIndex /\ [][NextIndex]_vars

\* the ids of the stored resources that have one of the uids, in their order
ResourcesWith(uids) ==
    SelectSeq(values(_resources), LAMBDA r : r.uid \in uids)

\* C35: the index maps every uid of a stored resource to the list of all
\* stored resources with that uid, adjacent in the collection or not, maps
\* every (uid, path) pair to its resource, and attaches to each activity the
\* resources of its uids.
IndexGroupsAllResources ==
    (last.op = "ActivityDbIndex") =>
        LET index == last.ret[1]
        IN  /\ DOMAIN index.UID_TO_RESOURCE = {_resources[k].uid : k \in DOMAIN _resources}
            /\ \A uid \in DOMAIN index.UID_TO_RESOURCE :
                  index.UID_TO_RESOURCE[uid] = ResourcesWith({uid})
            /\ \A k \in DOMAIN _resources :
                  LET key == <<_resources[k].uid, _resources[k].path>>
                  IN  /\ key \in DOMAIN index.UID_PATH_TO_RESOURCE.items
                      /\ index.UID_PATH_TO_RESOURCE.items[key].uid = key[1]
                      /\ index.UID_PATH_TO_RESOURCE.items[key].path = key[2]
            /\ \A id \in DOMAIN _activities :
                  index.__resources__[id] = ResourcesWith(SeqToSet(_activities[id].uids))

----------------------------------------------------------------------------
(* A db that is filled through upsert_activity only *)

NextUpsert ==
    \/ \E a \in ActivityInputs : upsert_activity(a) /\ UNCHANGED calls
    \/ \E id \in DOMAIN _activities : remove_activity(id) /\ UNCHANGED calls

SpecUpsert == InitEphemeral /\ [][NextUpsert]_vars

\* C36: in a db filled from empty by upsert_activity alone, remove_activity
\* interleaved, no uid is among the uids of two different stored activities,
\* also after the upsert of an activity whose uids span two stored activities.
NoUidInTwoActivities ==
    \A j, k \in DOMAIN _activities :
        j # k => ~SharesUid(_activities[j], _activities[k])

----------------------------------------------------------------------------
(* The tags of a record built from other records *)

MaxLists == 5

\* the tags in the order sorted() puts them in
TAGS == <<"hilly", "race">>

\* sorted( tags ) of a list without duplicates
sorted(tags) == SelectSeq(TAGS, LAMBDA t : t \in SeqToSet(tags))

\* list.remove( tag ): the list without the first tag of that value
RECURSIVE list_remove(_, _)
list_remove(tags, tag) ==
    IF tags = <<>> THEN <<>>
    ELSE IF Head(tags) = tag THEN Tail(tags)
    ELSE <<Head(tags)>> \o list_remove(Tail(tags), tag)

\* the list the tags of the object refer to
TagsOf(h, object) == h.lists[h.tags[object]]
AllTags(h) == [object \in 1..Len(h.tags) |-> TagsOf(h, object)]

\* the lists of tags two records from the services come with
TagLists == {<<>>, <<"hilly">>, <<"race">>, <<"hilly", "race">>}

\* two records, each with a list of tags of its own ( default_factory=list )
InitTags ==
    /\ _activities = EmptyObject
    /\ _resources = EmptyObject
    /\ _read_only = FALSE
    /\ _db_path = FALSE
    /\ backup_path = EmptyObject
    /\ \E first, second \in TagLists : heap = [tags |-> <<1, 2>>, lists |-> <<first, second>>]
    /\ path_exists = FALSE
    /\ osfs = EmptyFs
    /\ memfs = SeededFs(0)
    /\ overlay = EmptyFs
    /\ clock = 0
    /\ alive = TRUE
    /\ last = Call("__init__")
    /\ ghost = History(SeededFs(0), FALSE, EmptyFs, NoError)
    /\ calls = 0

TagsFrame ==
    UNCHANGED <<colVars, _read_only, _db_path, backup_path, path_exists, osfs, memfs, overlay, clock, alive, calls>>

\* the address 'tags' of the new record refers to after __init_from_others__:
\* 'if value := getattr( o, f.name )' skips an empty list, setattr assigns
\* the list of the source itself
RECURSIVE tags_from_others(_, _, _, _)
tags_from_others(h, address, others, force) ==
    IF others = <<>> THEN address
    ELSE IF TagsOf(h, Head(others)) # <<>>
         THEN IF ~force THEN h.tags[Head(others)]
              ELSE tags_from_others(h, h.tags[Head(others)], Tail(others), force)
         ELSE tags_from_others(h, address, Tail(others), force)

\* Activity( others=[first, second], force=force ): the new record is object 3
Activity_from_others(force) ==
    /\ Len(heap.tags) = 2
    /\ LET fresh == Len(heap.lists) + 1
           made == [heap EXCEPT !.lists = Append(@, <<>>)]
       IN  /\ heap' = [made EXCEPT !.tags = Append(@, tags_from_others(made, fresh, <<1, 2>>, force))]
           /\ last' = [op |-> "Activity", arg |-> [others |-> <<1, 2>>, force |-> force],
                       ret |-> Some(3), found |-> None, pre |-> AllTags(heap)]
    /\ ghost' = [ghost EXCEPT !.raised = NoError]
    /\ TagsFrame

\* self.tag( tag ): append to the list in place, then 'self.tags = sorted( ... )'
tag(self, t) ==
    /\ self \in 1..Len(heap.tags)
    /\ Len(heap.lists) < MaxLists
    /\ LET address == heap.tags[self]
           appended == [heap.lists EXCEPT ![address] = Append(@, t)]
       IN  heap' = IF t \in SeqToSet(TagsOf(heap, self)) THEN heap
                   ELSE [tags |-> [heap.tags EXCEPT ![self] = Len(appended) + 1],
                         lists |-> Append(appended, sorted(appended[address]))]
    /\ last' = [op |-> "tag", arg |-> [self |-> self, tag |-> t], ret |-> None,
                found |-> None, pre |-> AllTags(heap)]
    /\ ghost' = [ghost EXCEPT !.raised = NoError]
    /\ TagsFrame

\* self.untag( tag ): 'self.tags.remove( tag )', in place
untag(self, t) ==
    /\ self \in 1..Len(heap.tags)
    /\ LET address == heap.tags[self]
           has == t \in SeqToSet(TagsOf(heap, self))
       IN  /\ heap' = [heap EXCEPT !.lists[address] = list_remove(@, t)]
           /\ ghost' = [ghost EXCEPT !.raised = IF has THEN NoError ELSE "ValueError"]
    /\ last' = [op |-> "untag", arg |-> [self |-> self, tag |-> t], ret |-> None,
                found |-> None, pre |-> AllTags(heap)]
    /\ TagsFrame

NextTags ==
    \/ \E force \in BOOLEAN : Activity_from_others(force)
    \/ \E self \in 1..3, t \in SeqToSet(TAGS) : tag(self, t)
    \/ \E self \in 1..3, t \in SeqToSet(TAGS) : untag(self, t)

SpecTags == InitTags /\ [][NextTags]_vars

\* C39: a record built from other records shares no list with them: tag() and
\* untag() on the result leave the tags of every source as they were, and
\* tag() on a source leaves the tags of the result as they were.
MergedRecordSharesNoList ==
    (last.op \in {"tag", "untag"} /\ Len(last.pre) = 3) =>
        /\ (last.arg.self = 3) => \A source \in 1..2 : TagsOf(heap, source) = last.pre[source]
        /\ (last.op = "tag" /\ last.arg.self # 3) => TagsOf(heap, 3) = last.pre[3]

----------------------------------------------------------------------------
(* Maintenance of the db *)

\* the db files after migrate_db: a migration that rewrites leaves the
\* activities file written at time t, any other leaves the files as they are
migrate_db(files, rewrites, t) ==
    IF rewrites /\ ACTIVITIES_NAME \in DOMAIN files
    THEN WriteFile(files, ACTIVITIES_NAME, files[ACTIVITIES_NAME].content, t)
    ELSE files

\* maintain_db at the time now; backup_first is the order of its two calls
Maintain(maintenance, now, rewrites, backup_first) ==
    /\ alive /\ _db_path
    /\ \A name \in DOMAIN backup_path : name <= now
    /\ rewrites => clock < MaxClock
    /\ LET raised == IF maintenance = None THEN NoError
                     ELSE IF ~path_exists THEN "FileNotFoundError"
                     ELSE IF now \in DOMAIN backup_path THEN "FileExistsError"
                     ELSE NoError
           backs_up == maintenance # None /\ raised = NoError
           migrates == maintenance # None /\ (raised = NoError \/ ~backup_first)
           migrated == migrate_db(osfs, rewrites, clock + 1)
       IN  /\ backup_path' = IF backs_up
                             THEN DictSet(backup_path, now,
                                          copytree(IF backup_first THEN osfs ELSE migrated, EmptyFs))
                             ELSE backup_path
           /\ osfs' = IF migrates THEN migrated ELSE osfs
           /\ clock' = IF migrates /\ migrated # osfs THEN clock + 1 ELSE clock
           /\ ghost' = [ghost EXCEPT !.raised = raised]
           /\ last' = [op |-> "maintain_db", arg |-> [maintenance |-> maintenance, now |-> now],
                       ret |-> None,
                       found |-> IF maintenance = None THEN <<"migrate_db_functions">>
                                 ELSE IF backup_first
                                      THEN IF migrates THEN <<"backup_db", "migrate_db">> ELSE <<"backup_db">>
                                      ELSE <<"migrate_db", "backup_db">>,
                       pre |-> [backup_path |-> backup_path, exists |-> path_exists, files |-> osfs]]
    /\ UNCHANGED <<colVars, _read_only, _db_path, path_exists, memfs, overlay, alive, heap>>

\* a faulty maintain_db: the migration runs before the backup is made
maintain_db_migrates_first(maintenance, now, rewrites) == Maintain(maintenance, now, rewrites, FALSE)

\* maintain_db( ctx, maintenance ): without a name the migrations are listed,
\* with one backup_db( ctx ) is followed by migrate_db( ctx, maintenance )
maintain_db(maintenance, now, rewrites) == Maintain(maintenance, now, rewrites, TRUE)

\* the names given to maintain_db
Maintenances == {None, Some("migration")}

NextMaintain ==
    \/ Called /\ insert_activity(StoreActivity)
    \/ Called /\ commit(TRUE)
    \/ Called /\ save
    \/ Called /\ \E maintenance \in Maintenances, now \in 1..MaxStamp, rewrites \in BOOLEAN :
                    maintain_db(maintenance, now, rewrites)

SpecMaintain == InitStore /\ [][NextMaintain]_vars

\* C40: maintain_db with a name completes backup_db before migrate_db starts:
\* a migration that ran has the backup of the files as they were before it,
\* and no migration runs when the backup failed; without a name the
\* migrations are only listed, nothing is backed up and nothing migrated.
MaintainBacksUpBeforeMigrating ==
    (last.op = "maintain_db") =>
        IF last.arg.maintenance = None
        THEN /\ last.found = <<"migrate_db_functions">>
             /\ backup_path = last.pre.backup_path
             /\ osfs = last.pre.files
        ELSE IF ghost.raised = NoError
        THEN /\ last.found = <<"backup_db", "migrate_db">>
             /\ DOMAIN backup_path = DOMAIN last.pre.backup_path \cup {last.arg.now}
             /\ backup_path[last.arg.now] = copytree(last.pre.files, EmptyFs)
        ELSE /\ last.found = <<"backup_db">>
             /\ backup_path = last.pre.backup_path
             /\ osfs = last.pre.files

\* a migration rewrote the activities file, the backup holds the file of before
MigratedAfterBackupWitness ==
    /\ last.op = "maintain_db"
    /\ last.arg.maintenance # None
    /\ last.found = <<"backup_db", "migrate_db">>
    /\ osfs # last.pre.files
    /\ backup_path[last.arg.now][ACTIVITIES_NAME] = last.pre.files[ACTIVITIES_NAME]
    /\ backup_path[last.arg.now][ACTIVITIES_NAME] # osfs[ACTIVITIES_NAME]

====
